---- MODULE Spec2Model ----
(***************************************************************************)
(* Output-contract validation and self-repair engine of the repository:    *)
(*   - extract_with_retry      (src/deepseek/Chapter03/eg6.py)             *)
(*   - validate_math_answer    (src/deepseek/Chapter03/eg5.py)             *)
(*   - validate_code_block_normalize (src/deepseek/Chapter03/eg5.py)       *)
(*   - validate_response       (src/deepseek/Chapter03/eg3.py)             *)
(*   - analyze_focus           (src/deepseek/Chapter03/eg4.py)             *)
(* Text is modelled as a sequence of atoms; an atom is one character, or   *)
(* one literal of the code's patterns that the model keeps whole.          *)
(***************************************************************************)
EXTENDS Integers, Sequences, FiniteSets, TLC

VARIABLES
    pc,           \* per session: position in extract_with_retry
    max_retries,  \* per session: the max_retries argument
    attempt,      \* per session: the loop variable of `for attempt in range(max_retries)`
    prompt,       \* per session: the local variable prompt
    original,     \* per session: the prompt argument as the caller passed it
    sent,         \* per session: the prompts submitted to the generator, in order
    failures,     \* per session: the exceptions the generator calls raised, in order
    returns,      \* per session: the values the generator calls returned, in order
    result,       \* per session: the value returned to the caller
    raised,       \* per session: the exception that left extract_with_retry
    vpc,            \* validate_math_answer: "idle", "called" or "returned"
    response,       \* validate_math_answer: the response argument
    expected_value, \* validate_math_answer: Decimal(str(expected_value))
    expected_units, \* validate_math_answer: the expected_units argument
    dp,             \* validate_math_answer: the dp argument
    verdict,        \* validate_math_answer: the (accepted, reasons) it returned
    cpc,            \* validate_code_block_normalize: "idle", "called" or "returned"
    code_response,  \* validate_code_block_normalize: the response argument
    code_verdict,   \* validate_code_block_normalize: the (accepted, reasons) it returned
    jpc,            \* validate_response: "idle", "called", "returned" or "raised"
    raw,            \* validate_response: the raw argument
    outcome,        \* validate_response: what the call returned or raised
    fpc,            \* analyze_focus: "idle", "called" or "returned"
    focus_text,     \* analyze_focus: the text argument
    snapshot        \* analyze_focus: the dict it returned

retryVars == <<pc, max_retries, attempt, prompt, original, sent, failures, returns,
              result, raised>>

mathVars == <<vpc, response, expected_value, expected_units, dp, verdict>>

codeVars == <<cpc, code_response, code_verdict>>

jsonVars == <<jpc, raw, outcome>>

focusVars == <<fpc, focus_text, snapshot>>

validatorVars == <<mathVars, codeVars, jsonVars, focusVars>>

vars == <<retryVars, validatorVars>>

(***************************************************************************)
(* Bounds of the model.                                                    *)
(***************************************************************************)
MaxRetries == 3
MaxDp == 3
MaxFocusLen == 4

----------------------------------------------------------------------------
(***************************************************************************)
(* Text helpers.                                                           *)
(***************************************************************************)
\* s[i..j] as Python's slice s[i-1:j]
Slice(s, i, j) == IF i > j THEN << >> ELSE SubSeq(s, i, j)

\* Python's `sub in s` for strings: sub occurs in s as a contiguous run
Contains(s, sub) ==
    \E i \in 1..(Len(s) - Len(sub) + 1) : Slice(s, i, i + Len(sub) - 1) = sub

EndsWith(s, suffix) ==
    /\ Len(suffix) <= Len(s)
    /\ Slice(s, Len(s) - Len(suffix) + 1, Len(s)) = suffix

----------------------------------------------------------------------------
(***************************************************************************)
(* extract_with_retry: the retry-repair loop.                              *)
(***************************************************************************)
Sessions == {"s1", "s2"}

\* the values max_retries is called with, the ones below 1 included
RetryArgs == (0 - 1)..MaxRetries

\* prompts the caller passes in
Prompts == { <<"Extract", "date">>, <<"Parse", "contact">> }

\* validated model_class instances the generator may return
Values == {"v1", "v2"}

\* what an exception raised by the generator call is: a validation error of the
\* response, or a fault of the call itself (timeout, unreachable service)
Kinds == {"validation", "fault"}

\* str(e) of the exceptions the generator call may raise
Messages == { <<"invalid", "json">>, <<"timeout">> }

NoValue == "NoValue"
NoException == [id |-> << >>, kind |-> "none", msg |-> << >>]

\* the exception object the n-th call of session s raises: id is its identity
NewException(s, n, kind, msg) == [id |-> <<s, n>>, kind |-> kind, msg |-> msg]

\* a str(e) cut to its first atom
StrTruncated(e) == Slice(e.msg, 1, 1)

\* str(e)
Str(e) == e.msg

\* the feedback put after the prompt instead of around it
RepairPromptAppended(e, p) ==
    p \o <<"\n\nThe previous JSON was invalid:\n">> \o Str(e)

\* the f-string of the except branch
RepairPrompt(e, p) ==
    <<"The previous JSON was invalid:\n">> \o Str(e)
        \o <<"\n\nPlease fix and return valid JSON for: ">> \o p

\* the guard off by one: `attempt <= max_retries - 1`
AttemptsRemainOffByOne(s) == attempt[s] <= max_retries[s] - 1

\* `attempt < max_retries - 1`
AttemptsRemain(s) == attempt[s] < max_retries[s] - 1

InitRetry(active) ==
    /\ max_retries \in [Sessions -> RetryArgs]
    /\ original \in [Sessions -> Prompts]
    /\ prompt = original
    /\ pc = [s \in Sessions |-> IF s \in active THEN "loop" ELSE "idle"]
    /\ \A s \in Sessions \ active :
          /\ max_retries[s] = 1
          /\ original[s] = <<"Extract", "date">>
    /\ attempt = [s \in Sessions |-> 0]
    /\ sent = [s \in Sessions |-> << >>]
    /\ failures = [s \in Sessions |-> << >>]
    /\ returns = [s \in Sessions |-> << >>]
    /\ result = [s \in Sessions |-> NoValue]
    /\ raised = [s \in Sessions |-> NoException]

\* range(max_retries) yields the next attempt and the try block submits the prompt
Submit(s) ==
    /\ pc[s] = "loop"
    /\ attempt[s] < max_retries[s]
    /\ sent' = [sent EXCEPT ![s] = Append(@, prompt[s])]
    /\ pc' = [pc EXCEPT ![s] = "waiting"]
    /\ UNCHANGED <<max_retries, attempt, prompt, original, failures, returns, result, raised>>
    /\ UNCHANGED validatorVars

\* range(max_retries) is exhausted: the function falls off its end and returns None
FallThrough(s) ==
    /\ pc[s] = "loop"
    /\ ~(attempt[s] < max_retries[s])
    /\ pc' = [pc EXCEPT ![s] = "returned"]
    /\ UNCHANGED <<max_retries, attempt, prompt, original, sent, failures, returns, result,
                   raised>>
    /\ UNCHANGED validatorVars

\* the value is kept but the loop goes on: an assignment where the code returns
ReturnValueNoStop(s, v) ==
    /\ pc[s] = "waiting"
    /\ returns' = [returns EXCEPT ![s] = Append(@, v)]
    /\ result' = [result EXCEPT ![s] = v]
    /\ attempt' = [attempt EXCEPT ![s] = @ + 1]
    /\ pc' = [pc EXCEPT ![s] = IF attempt[s] + 1 < max_retries[s] THEN "loop" ELSE "returned"]
    /\ UNCHANGED <<max_retries, prompt, original, sent, failures, raised>>
    /\ UNCHANGED validatorVars

\* the value is stored and the loop runs to the end of its range before it returns
ReturnValueThenLoop(s, v) ==
    /\ pc[s] = "waiting"
    /\ returns' = [returns EXCEPT ![s] = Append(@, v)]
    /\ result' = [result EXCEPT ![s] = v]
    /\ attempt' = [attempt EXCEPT ![s] = @ + 1]
    /\ pc' = [pc EXCEPT ![s] = "loop"]
    /\ UNCHANGED <<max_retries, prompt, original, sent, failures, raised>>
    /\ UNCHANGED validatorVars

\* the generator call returns a validated value: `return client...create(...)`
ReturnValue(s, v) ==
    /\ pc[s] = "waiting"
    /\ returns' = [returns EXCEPT ![s] = Append(@, v)]
    /\ result' = [result EXCEPT ![s] = v]
    /\ pc' = [pc EXCEPT ![s] = "returned"]
    /\ UNCHANGED <<max_retries, attempt, prompt, original, sent, failures, raised>>
    /\ UNCHANGED validatorVars

\* the feedback wrapped around the prompt the caller passed in, not around the last one
RepairFromOriginal(s, e) ==
    /\ pc[s] = "waiting"
    /\ AttemptsRemain(s)
    /\ failures' = [failures EXCEPT ![s] = Append(@, e)]
    /\ prompt' = [prompt EXCEPT ![s] = RepairPrompt(e, original[s])]
    /\ attempt' = [attempt EXCEPT ![s] = @ + 1]
    /\ pc' = [pc EXCEPT ![s] = "loop"]
    /\ UNCHANGED <<max_retries, original, sent, returns, result, raised>>
    /\ UNCHANGED validatorVars

\* the prompt kept in one module-level variable that every session reads and writes
RepairShared(s, e) ==
    /\ pc[s] = "waiting"
    /\ AttemptsRemain(s)
    /\ failures' = [failures EXCEPT ![s] = Append(@, e)]
    /\ prompt' = [t \in Sessions |-> RepairPrompt(e, prompt[s])]
    /\ attempt' = [attempt EXCEPT ![s] = @ + 1]
    /\ pc' = [pc EXCEPT ![s] = "loop"]
    /\ UNCHANGED <<max_retries, original, sent, returns, result, raised>>
    /\ UNCHANGED validatorVars

\* the generator call raises e and attempts remain: the prompt is rewritten
Repair(s, e) ==
    /\ pc[s] = "waiting"
    /\ AttemptsRemain(s)
    /\ failures' = [failures EXCEPT ![s] = Append(@, e)]
    /\ prompt' = [prompt EXCEPT ![s] = RepairPrompt(e, @)]
    /\ attempt' = [attempt EXCEPT ![s] = @ + 1]
    /\ pc' = [pc EXCEPT ![s] = "loop"]
    /\ UNCHANGED <<max_retries, original, sent, returns, result, raised>>
    /\ UNCHANGED validatorVars

\* the first failure of the session is raised instead of the one being handled
ReraiseFirst(s, e) == IF failures[s] = << >> THEN e ELSE failures[s][1]

\* a new exception built from the text of the handled one: `raise Exception(str(e))`
ReraiseText(s, e) == [id |-> <<s, 0>>, kind |-> e.kind, msg |-> e.msg]

\* what the bare `raise` of the else branch lets out of the function: the exception
\* being handled, the object itself
Reraise(s, e) == e

\* the generator call raises e on the last allowed attempt: `raise`
Exhaust(s, e) ==
    /\ pc[s] = "waiting"
    /\ ~AttemptsRemain(s)
    /\ failures' = [failures EXCEPT ![s] = Append(@, e)]
    /\ raised' = [raised EXCEPT ![s] = Reraise(s, e)]
    /\ pc' = [pc EXCEPT ![s] = "raised"]
    /\ UNCHANGED <<max_retries, attempt, prompt, original, sent, returns, result>>
    /\ UNCHANGED validatorVars

\* the generator call of session s raises an exception
Fail(s) ==
    \E kind \in Kinds, msg \in Messages :
        LET e == NewException(s, Len(sent[s]), kind, msg)
        IN  Repair(s, e) \/ Exhaust(s, e)

Succeed(s) == \E v \in Values : ReturnValue(s, v)

\* no call of validate_math_answer is under way
MathIdle ==
    /\ vpc = "idle"
    /\ response = << >>
    /\ expected_value = [sign |-> 0, int |-> <<0>>, exp |-> 0]
    /\ expected_units = << >>
    /\ dp = 0
    /\ verdict = [accepted |-> FALSE, reasons |-> << >>]

\* no call of validate_code_block_normalize is under way
CodeIdle ==
    /\ cpc = "idle"
    /\ code_response = << >>
    /\ code_verdict = [accepted |-> FALSE, reasons |-> << >>]

\* no call of validate_response is under way
JsonIdle ==
    /\ jpc = "idle"
    /\ raw = << >>
    /\ outcome = [raised |-> "none", accepted |-> FALSE, reasons |-> << >>,
                  data |-> [type |-> "none", text |-> << >>, items |-> << >>,
                            fields |-> << >>]]

\* no call of analyze_focus is under way
FocusIdle ==
    /\ fpc = "idle"
    /\ focus_text = << >>
    /\ snapshot = [raised |-> "none", mentions_sql |-> FALSE, mentions_auth_bypass |-> FALSE,
                   target_hits |-> 0, offtopic_hits |-> 0, focus_score |-> 0,
                   snr |-> 0, length_words |-> 0, sentences |-> 0]

Init == InitRetry({"s1"}) /\ MathIdle /\ CodeIdle /\ JsonIdle /\ FocusIdle

Next ==
    \E s \in Sessions :
        \/ Submit(s)
        \/ FallThrough(s)
        \/ Succeed(s)
        \/ Fail(s)

Spec == Init /\ [][Next]_vars

\* two calls of extract_with_retry under way at once, each with its own arguments;
\* Next interleaves their steps in every order
InitTwo == InitRetry(Sessions) /\ MathIdle /\ CodeIdle /\ JsonIdle /\ FocusIdle

SpecTwo == InitTwo /\ [][Next]_vars

----------------------------------------------------------------------------
(***************************************************************************)
(* Properties of extract_with_retry.                                       *)
(***************************************************************************)
Ended(s) == pc[s] \in {"returned", "raised"}

\* C1: with max_retries >= 1, whatever the generator calls do, a session submits at
\* most max_retries prompts, and once max_retries prompts are answered it has ended,
\* returning a value or raising.
C1_AttemptsBounded ==
    \A s \in Sessions :
        max_retries[s] >= 1 =>
            /\ Len(sent[s]) <= max_retries[s]
            /\ (Len(sent[s]) = max_retries[s] /\ pc[s] # "waiting") =>
                   \/ pc[s] = "returned" /\ result[s] \in Values
                   \/ pc[s] = "raised" /\ raised[s] # NoException

C1_Witness ==
    \E s \in Sessions :
        /\ max_retries[s] >= 2
        /\ Len(sent[s]) = max_retries[s]
        /\ pc[s] = "raised"

\* C2: a session (max_retries >= 1) that has ended with every generator call failed
\* made exactly max_retries calls and raised the failure of the last of them.
C2_LastFailureSurfaced ==
    \A s \in Sessions :
        (max_retries[s] >= 1 /\ Ended(s) /\ returns[s] = << >>) =>
            /\ pc[s] = "raised"
            /\ Len(sent[s]) = max_retries[s]
            /\ Len(failures[s]) = max_retries[s]
            /\ raised[s] = failures[s][max_retries[s]]

C2_Witness ==
    \E s \in Sessions :
        /\ max_retries[s] >= 2
        /\ pc[s] = "raised"
        /\ failures[s][1].msg # failures[s][max_retries[s]].msg

\* C3: a session whose first generator call returns a value ends after that one
\* call, returns that value, and has never rewritten its prompt.
C3_FirstSuccessEnds ==
    \A s \in Sessions :
        (returns[s] # << >> /\ failures[s] = << >>) =>
            /\ pc[s] = "returned"
            /\ Len(sent[s]) = 1
            /\ Len(returns[s]) = 1
            /\ result[s] = returns[s][1]
            /\ prompt[s] = original[s]
            /\ sent[s] = <<original[s]>>

C3_Witness ==
    \E s \in Sessions :
        /\ max_retries[s] >= 2
        /\ returns[s] # << >>
        /\ failures[s] = << >>
        /\ pc[s] = "returned"

\* C4: the prompt of attempt n+1 is submitted only once attempt n has failed, and
\* it contains str(e) of that failure, atom for atom.
C4_FeedbackVerbatim ==
    \A s \in Sessions :
        /\ Len(sent[s]) <= Len(failures[s]) + 1
        /\ \A n \in 1..(Len(sent[s]) - 1) :
              /\ n < max_retries[s]
              /\ Contains(sent[s][n + 1], failures[s][n].msg)

C4_Witness ==
    \E s \in Sessions :
        /\ Len(sent[s]) >= 3
        /\ Len(failures[s][2].msg) >= 2

\* C5: a session started with max_retries < 1 ends by raising, without a generator
\* call; it never ends normally.
C5_BadBoundRaises ==
    \A s \in Sessions :
        (max_retries[s] < 1 /\ Ended(s)) =>
            /\ pc[s] = "raised"
            /\ sent[s] = << >>

\* C6: a generator call that raises a fault uses up one attempt like a validation
\* error: while attempts remain the session goes on to the next attempt, whose
\* prompt carries the fault's message; a fault on the last allowed attempt leaves
\* the function as the very exception object the call raised.
C6_FaultRetriedThenSurfaced ==
    \A s \in Sessions :
        \A n \in 1..Len(failures[s]) :
            failures[s][n].kind = "fault" =>
                IF n < max_retries[s]
                THEN /\ Len(sent[s]) = n => (pc[s] = "loop" /\ attempt[s] = n)
                     /\ Len(sent[s]) > n => Contains(sent[s][n + 1], failures[s][n].msg)
                     /\ ~(pc[s] = "raised" /\ Len(failures[s]) = n)
                ELSE /\ n = max_retries[s]
                     /\ pc[s] = "raised"
                     /\ raised[s] = failures[s][n]
                     /\ raised[s].id = <<s, n>>

C6_Witness ==
    \E s \in Sessions :
        /\ max_retries[s] >= 2
        /\ pc[s] = "raised"
        /\ \A n \in 1..Len(failures[s]) : failures[s][n].kind = "fault"

\* the locals and the parameters of the call of session s
SessionState(s) ==
    <<pc[s], max_retries[s], attempt[s], prompt[s], original[s], sent[s], failures[s],
      returns[s], result[s], raised[s]>>

\* the prompt of the n-th call of session s, built from the prompt the session was called
\* with and from the exceptions its own earlier calls raised
RECURSIVE OwnPrompt(_, _)
OwnPrompt(s, n) ==
    IF n = 1 THEN original[s] ELSE RepairPrompt(failures[s][n - 1], OwnPrompt(s, n - 1))

\* what a session running alone has done when it ends, given what its own calls of the
\* generator answered
AloneOutcome(s) ==
    IF max_retries[s] <= 0
    THEN pc[s] = "returned" /\ result[s] = NoValue /\ sent[s] = << >>
    ELSE IF returns[s] # << >>
    THEN /\ pc[s] = "returned"
         /\ result[s] = returns[s][1]
         /\ Len(returns[s]) = 1
         /\ Len(sent[s]) = Len(failures[s]) + 1
         /\ Len(sent[s]) <= max_retries[s]
    ELSE /\ pc[s] = "raised"
         /\ Len(sent[s]) = max_retries[s]
         /\ Len(failures[s]) = max_retries[s]
         /\ raised[s] = failures[s][max_retries[s]]

OwnHistory(s) ==
    /\ \A n \in 1..Len(sent[s]) : sent[s][n] = OwnPrompt(s, n)
    /\ \A n \in 1..Len(failures[s]) : failures[s][n].id = <<s, n>>
    /\ pc[s] = "loop" => prompt[s] = OwnPrompt(s, Len(failures[s]) + 1)
    /\ Ended(s) => AloneOutcome(s)

\* a step belongs to one session and leaves the state of every other session as it was
OneSessionSteps ==
    \E t \in Sessions : \A s \in Sessions \ {t} : SessionState(s)' = SessionState(s)

\* C20: two sessions interleaved in any order share no state: every prompt a session
\* submits is built only from its own original prompt and its own earlier failures, a
\* step of one session changes nothing of the other, and each session ends after the
\* attempts and with the outcome it has when it runs alone.
C20_SessionsShareNoState ==
    /\ [](\A s \in Sessions : OwnHistory(s))
    /\ [][OneSessionSteps]_vars

\* both sessions have ended, both after failures of their own, with different outcomes
\* and different prompts
C20_Witness ==
    /\ pc["s1"] = "raised" /\ pc["s2"] = "returned"
    /\ original["s1"] # original["s2"]
    /\ Len(sent["s1"]) = 3 /\ Len(sent["s2"]) = 2
    /\ failures["s1"][1].msg # failures["s2"][1].msg
    /\ result["s2"] # NoValue

\* C22 as stated: the prompt submitted for attempt n+1 is the prompt the caller first
\* passed in, followed by the failure reasons of attempt n.
C22_FeedbackAppendedToOriginal ==
    \A s \in Sessions :
        \A n \in 1..(Len(sent[s]) - 1) :
            /\ Slice(sent[s][n + 1], 1, Len(original[s])) = original[s]
            /\ EndsWith(sent[s][n + 1], failures[s][n].msg)

\* C22 as amended: the prompt submitted for attempt n+1 is the repair text holding
\* str(e) of the failure of attempt n, followed by the prompt submitted for attempt n.
C22_FeedbackWrapsPrevious ==
    \A s \in Sessions :
        \A n \in 1..(Len(sent[s]) - 1) :
            sent[s][n + 1] =
                <<"The previous JSON was invalid:\n">> \o failures[s][n].msg
                    \o <<"\n\nPlease fix and return valid JSON for: ">> \o sent[s][n]

\* a third prompt was submitted, after two failures with different messages, and the
\* call that took it succeeded
C22_Witness ==
    \E s \in Sessions :
        /\ Len(sent[s]) = 3
        /\ failures[s][1].msg # failures[s][2].msg
        /\ pc[s] = "returned"
        /\ result[s] # NoValue

\* the failures of session s before attempt k, the most recent first
RECURSIVE MessagesBefore(_, _)
MessagesBefore(s, k) ==
    IF k <= 1 THEN << >> ELSE <<failures[s][k - 1].msg>> \o MessagesBefore(s, k - 1)

\* the texts of msgs occur in text one after the other, in the order of msgs
RECURSIVE OccurInOrder(_, _)
OccurInOrder(text, msgs) ==
    \/ msgs = << >>
    \/ /\ msgs # << >>
       /\ \E i \in 1..Len(text) :
             /\ Slice(text, i, i + Len(msgs[1]) - 1) = msgs[1]
             /\ OccurInOrder(Slice(text, i + Len(msgs[1]), Len(text)), Tail(msgs))

\* the session state a step of session s may change once the session has returned
SessionFrozen(s) ==
    /\ pc'[s] = pc[s] /\ sent'[s] = sent[s] /\ prompt'[s] = prompt[s]
    /\ result'[s] = result[s] /\ returns'[s] = returns[s] /\ attempt'[s] = attempt[s]

\* C29: for max_retries >= 1 the session makes min(i, max_retries) generator calls,
\* i the index of its first successful call; the value returned is the result of
\* that call, and after a success no call is made and no prompt is rewritten.
C29_StopsAtFirstSuccess ==
    /\ [](\A s \in Sessions :
            max_retries[s] >= 1 =>
                /\ Len(returns[s]) <= 1
                /\ returns[s] # << >> =>
                      /\ pc[s] = "returned"
                      /\ Len(sent[s]) = Len(failures[s]) + 1
                      /\ Len(sent[s]) <= max_retries[s]
                      /\ result[s] = returns[s][1]
                      /\ prompt[s] = sent[s][Len(sent[s])]
                /\ (Ended(s) /\ returns[s] = << >>) => Len(sent[s]) = max_retries[s])
    /\ [][\A s \in Sessions : returns[s] # << >> => SessionFrozen(s)]_vars

\* a session succeeded on its last allowed call, after two failures
C29_Witness ==
    \E s \in Sessions :
        /\ max_retries[s] = 3
        /\ Len(failures[s]) = 2
        /\ returns[s] # << >>
        /\ Len(sent[s]) = 3

\* C30: every prompt submitted ends with the caller's prompt; the prompt of attempt k
\* holds the messages of the failures of attempts 1..k-1, the most recent first, and
\* is longer than the prompt before it; the failure of the last allowed attempt
\* leaves the prompt as it was submitted.
C30_RepairWrapsPreviousPrompt ==
    \A s \in Sessions :
        /\ \A k \in 1..Len(sent[s]) :
              /\ EndsWith(sent[s][k], original[s])
              /\ OccurInOrder(sent[s][k], MessagesBefore(s, k))
              /\ k >= 2 => /\ Len(sent[s][k]) > Len(sent[s][k - 1])
                           /\ EndsWith(sent[s][k], sent[s][k - 1])
        /\ pc[s] = "raised" => prompt[s] = sent[s][Len(sent[s])]

\* every allowed attempt failed, the first and the second with different messages
C30_Witness ==
    \E s \in Sessions :
        /\ pc[s] = "raised"
        /\ max_retries[s] = 3
        /\ failures[s][1].msg = <<"timeout">>
        /\ failures[s][2].msg = <<"invalid", "json">>

----------------------------------------------------------------------------
(***************************************************************************)
(* Decimal arithmetic as validate_math_answer uses it.  A Decimal is a     *)
(* sign (0 or 1), a coefficient kept as its sequence of digits, and an     *)
(* exponent: the number is (-1)^sign * int * 10^exp.                       *)
(***************************************************************************)
DigitAtoms == <<"0", "1", "2", "3", "4", "5", "6", "7", "8", "9">>

\* \d
IsDigit(a) == \E d \in 1..10 : DigitAtoms[d] = a

DigitValue(a) == (CHOOSE d \in 1..10 : DigitAtoms[d] = a) - 1

DigitText(d) == DigitAtoms[d + 1]

Zeros(n) == [i \in 1..n |-> 0]

RECURSIVE StripLeadingZeros(_)
\* str(int(digits)): the digits without leading zeros, "0" for zero
StripLeadingZeros(ds) ==
    IF Len(ds) <= 1 THEN (IF ds = << >> THEN <<0>> ELSE ds)
    ELSE IF ds[1] = 0 THEN StripLeadingZeros(Tail(ds))
    ELSE ds

RECURSIVE Increment(_)
\* str(int(coeff) + 1) on a digit sequence
Increment(ds) ==
    IF ds = << >> THEN <<1>>
    ELSE IF ds[Len(ds)] < 9
         THEN Slice(ds, 1, Len(ds) - 1) \o <<ds[Len(ds)] + 1>>
         ELSE Increment(Slice(ds, 1, Len(ds) - 1)) \o <<0>>

Dec(sign, int, exp) == [sign |-> sign, int |-> int, exp |-> exp]

\* `not self` of a Decimal
IsZeroDec(d) == \A i \in 1..Len(d.int) : d.int[i] = 0

\* the precision of the default decimal context, which quantize works under
Prec == 28

\* rounding=ROUND_HALF_UP: whether the coefficient cut to `digits` digits is
\* raised by one; decided by the first digit dropped, whatever the sign
RoundHalfUp(ds, digits) == IF ds[digits + 1] >= 5 THEN 1 ELSE 0

\* Decimal._rescale(exp, ROUND_HALF_UP)
Rescale(d, exp) ==
    IF IsZeroDec(d) THEN Dec(d.sign, <<0>>, exp)
    ELSE IF d.exp >= exp THEN Dec(d.sign, d.int \o Zeros(d.exp - exp), exp)
    ELSE LET digits0 == Len(d.int) + d.exp - exp
             ds      == IF digits0 < 0 THEN <<1>> ELSE d.int
             digits  == IF digits0 < 0 THEN 0 ELSE digits0
             coeff   == IF digits = 0 THEN <<0>> ELSE Slice(ds, 1, digits)
         IN  Dec(d.sign,
                 IF RoundHalfUp(ds, digits) = 1
                 THEN StripLeadingZeros(Increment(coeff)) ELSE coeff,
                 exp)

\* whether Decimal.quantize raises InvalidOperation: the result would need more
\* than Prec digits
QuantizeRaises(d, places) ==
    /\ ~IsZeroDec(d)
    /\ \/ (d.exp + Len(d.int) - 1) + places + 1 > Prec
       \/ Len(Rescale(d, 0 - places).int) > Prec

\* Decimal(str(expected_value)).quantize(Decimal(10) ** (-dp), rounding=ROUND_HALF_UP)
Quantize(d, places) == Rescale(d, 0 - places)

\* the coefficient of d written at exponent exp (exp <= d.exp), leading zeros off
CoefficientAt(d, exp) == StripLeadingZeros(d.int \o Zeros(d.exp - exp))

\* Decimal.__eq__ of two finite Decimals: equal as numbers
DecEqual(a, b) ==
    IF IsZeroDec(a) \/ IsZeroDec(b) THEN IsZeroDec(a) /\ IsZeroDec(b)
    ELSE LET e == IF a.exp < b.exp THEN a.exp ELSE b.exp
         IN  /\ a.sign = b.sign
             /\ CoefficientAt(a, e) = CoefficientAt(b, e)

\* str() of a Decimal whose exponent is <= 0 and that str() writes without an
\* exponent (fewer than seven zeros after the point), as the reasons print it
DecText(d) ==
    LET places == 0 - d.exp
        padded == IF Len(d.int) > places THEN d.int
                  ELSE Zeros(places + 1 - Len(d.int)) \o d.int
        whole  == Slice(padded, 1, Len(padded) - places)
        frac   == Slice(padded, Len(padded) - places + 1, Len(padded))
        txt(ds) == [i \in 1..Len(ds) |-> DigitText(ds[i])]
    IN  (IF d.sign = 1 THEN <<"-">> ELSE << >>) \o txt(whole)
            \o (IF places > 0 THEN <<".">> \o txt(frac) ELSE << >>)

----------------------------------------------------------------------------
(***************************************************************************)
(* Text as validate_math_answer reads it.  The atoms of a response are     *)
(* single characters, except that each literal of the code's patterns      *)
(* ("<answer", "</answer" before its ">", "units", "rounding", "dp") and   *)
(* each unit symbol is one atom.  No atom but ">" holds a ">", none but    *)
(* the quote holds a quote, and only the digits start with a digit.        *)
(***************************************************************************)
Quote == "\""

\* \s
IsSpace(a) == a \in {" ", "\n", "\t"}

\* atoms whose first character is a word character (\w)
WordAtoms == {"units", "rounding", "dp", "m", "m/s^2", "m^2", "kg", "a", "b", "x"}

StartsWithWordChar(a) == a \in WordAtoms \/ IsDigit(a)

\* the index of the first atom at or after i that is not whitespace (\s* consumed)
RECURSIVE SkipSpaces(_, _)
SkipSpaces(s, i) ==
    IF i <= Len(s) /\ IsSpace(s[i]) THEN SkipSpaces(s, i + 1) ELSE i

\* the index of the first atom at or after i that is not a digit (\d* consumed)
RECURSIVE SkipDigits(_, _)
SkipDigits(s, i) ==
    IF i <= Len(s) /\ IsDigit(s[i]) THEN SkipDigits(s, i + 1) ELSE i

\* str.strip()
RECURSIVE Strip(_)
Strip(s) ==
    IF s = << >> THEN s
    ELSE IF IsSpace(s[1]) THEN Strip(Tail(s))
    ELSE IF IsSpace(s[Len(s)]) THEN Strip(Slice(s, 1, Len(s) - 1))
    ELSE s

\* int() of a run of digits
RECURSIVE DigitsToInt(_)
DigitsToInt(s) ==
    IF s = << >> THEN 0
    ELSE 10 * DigitsToInt(Slice(s, 1, Len(s) - 1)) + DigitValue(s[Len(s)])

\* str() of a non-negative int, as the f-strings of the reasons print it
RECURSIVE IntText(_)
IntText(n) ==
    IF n < 10 THEN <<DigitText(n)>> ELSE IntText(n \div 10) \o <<DigitText(n % 10)>>

NoMatch == [ok |-> FALSE, attrs |-> << >>, inner |-> << >>]

\* re.fullmatch(r"\s*<answer\b([^>]*)>(.*?)</answer>\s*", response, flags=re.DOTALL):
\* a, b, c are where "<answer", the ">" ending the attributes and the "</answer>"
\* ending the match stand.  Each of the three is fixed by the pattern (whitespace
\* cannot hold "<answer", [^>]* cannot cross ">", and only whitespace may follow
\* the closing tag), so there is at most one way to match.
ShapeMatch(r) ==
    LET n == Len(r)
        matches ==
            UNION { UNION { { <<a, b, c>> :
                c \in {c \in (b + 1)..(n - 1) :
                        /\ r[c] = "</answer" /\ r[c + 1] = ">"
                        /\ \A i \in (c + 2)..n : IsSpace(r[i])} } :
                b \in {b \in (a + 1)..n :
                        /\ r[b] = ">"
                        /\ \A i \in (a + 1)..(b - 1) : r[i] # ">"} } :
                a \in {a \in 1..n :
                        /\ r[a] = "<answer"
                        /\ \A i \in 1..(a - 1) : IsSpace(r[i])
                        /\ a + 1 <= n => ~StartsWithWordChar(r[a + 1])} }
    IN  IF matches = {} THEN NoMatch
        ELSE LET m == CHOOSE x \in matches : \A y \in matches : x[3] <= y[3]
             IN  [ok |-> TRUE,
                  attrs |-> Slice(r, m[1] + 1, m[2] - 1),
                  inner |-> Slice(r, m[2] + 1, m[3] - 1)]

NoGroup == [ok |-> FALSE, group |-> << >>]

\* the match of `units\s*=\s*"([^"]+)"` that starts at atom i of s, if there is one
UnitsMatchAt(s, i) ==
    LET j == SkipSpaces(s, i + 1)
        k == SkipSpaces(s, j + 1)
        qs == {q \in (k + 1)..Len(s) : s[q] = Quote}
        q == CHOOSE x \in qs : \A y \in qs : x <= y
    IN  IF /\ s[i] = "units"
           /\ j <= Len(s) /\ s[j] = "="
           /\ k <= Len(s) /\ s[k] = Quote
           /\ qs # {} /\ q > k + 1
        THEN [ok |-> TRUE, group |-> Slice(s, k + 1, q - 1)]
        ELSE NoGroup

\* the match of `rounding\s*=\s*"(\d+)dp"` that starts at atom i of s, if there is one
RoundingMatchAt(s, i) ==
    LET j == SkipSpaces(s, i + 1)
        k == SkipSpaces(s, j + 1)
        e == SkipDigits(s, k + 1)
    IN  IF /\ s[i] = "rounding"
           /\ j <= Len(s) /\ s[j] = "="
           /\ k <= Len(s) /\ s[k] = Quote
           /\ e > k + 1
           /\ e + 1 <= Len(s) /\ s[e] = "dp" /\ s[e + 1] = Quote
        THEN [ok |-> TRUE, group |-> Slice(s, k + 1, e - 1)]
        ELSE NoGroup

\* re.search(r'units\s*=\s*"([^"]+)"', attrs): the leftmost match
SearchUnits(s) ==
    LET starts == {i \in 1..Len(s) : UnitsMatchAt(s, i).ok}
    IN  IF starts = {} THEN NoGroup
        ELSE UnitsMatchAt(s, CHOOSE i \in starts : \A o \in starts : i <= o)

\* re.search(r'rounding\s*=\s*"(\d+)dp"', attrs): the leftmost match
SearchRounding(s) ==
    LET starts == {i \in 1..Len(s) : RoundingMatchAt(s, i).ok}
    IN  IF starts = {} THEN NoGroup
        ELSE RoundingMatchAt(s, CHOOSE i \in starts : \A o \in starts : i <= o)

\* re.fullmatch(r"-?\d+\.\d+", value_text)
IsDecimalLiteral(s) ==
    LET i == IF s # << >> /\ s[1] = "-" THEN 2 ELSE 1
        d == SkipDigits(s, i)
        e == SkipDigits(s, d + 1)
    IN  /\ d > i
        /\ d <= Len(s) /\ s[d] = "."
        /\ e > d + 1
        /\ e = Len(s) + 1

\* re.fullmatch(r"-?\d+", value_text)
IsIntLiteral(s) ==
    LET i == IF s # << >> /\ s[1] = "-" THEN 2 ELSE 1
        d == SkipDigits(s, i)
    IN  d > i /\ d = Len(s) + 1

\* len(value_text.split(".")[1]) of a text that IsDecimalLiteral
DecimalPlaces(s) ==
    LET dot == CHOOSE i \in 1..Len(s) : s[i] = "."
    IN  Len(s) - dot

\* whether Decimal(value_text) raises InvalidOperation.  Over the atoms of the model
\* Decimal takes an optional sign, then digits with at most one point and at least
\* one digit.
DecimalRaises(s) ==
    LET i == IF s # << >> /\ s[1] \in {"-", "+"} THEN 2 ELSE 1
        d == SkipDigits(s, i)
        e == IF d <= Len(s) /\ s[d] = "." THEN SkipDigits(s, d + 1) ELSE d
        ndigits == (d - i) + (IF e > d THEN e - d - 1 ELSE 0)
    IN  ~(e = Len(s) + 1 /\ ndigits >= 1)

\* Decimal(value_text), for a text Decimal takes
Decimal(s) ==
    LET i == IF s[1] \in {"-", "+"} THEN 2 ELSE 1
        d == SkipDigits(s, i)
        whole == Slice(s, i, d - 1)
        frac == Slice(s, d + 1, Len(s))
        ds == whole \o frac
    IN  Dec(IF s[1] = "-" THEN 1 ELSE 0,
            StripLeadingZeros([n \in 1..Len(ds) |-> DigitValue(ds[n])]),
            0 - Len(frac))

----------------------------------------------------------------------------
(***************************************************************************)
(* validate_math_answer.  A reason is the message of the code with the     *)
(* values its f-string prints.                                             *)
(***************************************************************************)
Reason(msg, args) == [msg |-> msg, args |-> args]

NotOneTag ==
    Reason("Response is not exactly one <answer>...</answer> tag with no extra text.", << >>)
MissingUnits ==
    Reason("Missing units=\"...\" attribute.", << >>)
WrongUnits(got, want) ==
    Reason("Wrong units: got \"{units_m.group(1)}\", expected \"{expected_units}\".",
           <<got, want>>)
MissingRounding ==
    Reason("Missing rounding=\"Xdp\" attribute.", << >>)
WrongRounding(got, want) ==
    Reason("Wrong rounding dp: got {got_dp}, expected {dp}.", <<IntText(got), IntText(want)>>)
NotDecimal ==
    Reason("Answer text is not a valid decimal number.", << >>)
WrongPlaces(want, got) ==
    Reason("Answer must have exactly {dp} decimal places, got {num_decimals}.",
           <<IntText(want), IntText(got)>>)
NumericMismatch(got, want, places) ==
    Reason("Numeric mismatch: got {got}, expected {expected_dec} at {dp}dp.",
           <<got, want, IntText(places)>>)
CouldNotParse ==
    Reason("Could not parse numeric value for comparison.", << >>)

\* the reasons of the units attribute
UnitsReasons(attrs, expected_units_) ==
    LET units_m == SearchUnits(attrs)
    IN  IF ~units_m.ok THEN <<MissingUnits>>
        ELSE IF units_m.group # expected_units_
             THEN <<WrongUnits(units_m.group, expected_units_)>>
        ELSE << >>

\* the reasons of the rounding attribute; int() of \d+ never raises ValueError
RoundingReasons(attrs, dp_) ==
    LET rounding_m == SearchRounding(attrs)
        got_dp == DigitsToInt(rounding_m.group)
    IN  IF ~rounding_m.ok THEN <<MissingRounding>>
        ELSE IF got_dp # dp_ THEN <<WrongRounding(got_dp, dp_)>>
        ELSE << >>

\* the reasons of the inner text's form: a decimal literal with dp decimal places
LiteralReasons(value_text, dp_) ==
    LET num_decimals == IF IsDecimalLiteral(value_text) THEN DecimalPlaces(value_text) ELSE 0
    IN  (IF IsDecimalLiteral(value_text) \/ IsIntLiteral(value_text)
         THEN << >> ELSE <<NotDecimal>>)
        \o (IF num_decimals # dp_ THEN <<WrongPlaces(dp_, num_decimals)>> ELSE << >>)

\* the reasons of the comparison with the expected value
ValueReasons(value_text, expected_value_, dp_) ==
    IF DecimalRaises(value_text) \/ QuantizeRaises(expected_value_, dp_)
    THEN <<CouldNotParse>>
    ELSE LET got == Decimal(value_text)
             expected_dec == Quantize(expected_value_, dp_)
         IN  IF ~DecEqual(got, expected_dec)
             THEN <<NumericMismatch(DecText(got), DecText(expected_dec), dp_)>>
             ELSE << >>

\* a verdict that is rejected whatever the reasons are
VerdictAlwaysRejected(accepted, reasons) == [accepted |-> FALSE, reasons |-> reasons]

\* the tuple (accepted, reasons) a validator returns
Verdict(accepted, reasons) == [accepted |-> accepted, reasons |-> reasons]

validate_math_answer(response_, expected_value_, expected_units_, dp_) ==
    LET m == ShapeMatch(response_)
        attrs == m.attrs
        value_text == Strip(m.inner)
        reasons == UnitsReasons(attrs, expected_units_)
                   \o RoundingReasons(attrs, dp_)
                   \o LiteralReasons(value_text, dp_)
                   \o ValueReasons(value_text, expected_value_, dp_)
    IN  IF ~m.ok THEN Verdict(FALSE, <<NotOneTag>>)
        ELSE Verdict(Len(reasons) = 0, reasons)

----------------------------------------------------------------------------
(***************************************************************************)
(* The calls of validate_math_answer that are checked.                     *)
(***************************************************************************)
\* Decimal(str(expected_value)) of the expected values 2.5, -2.5, 32.1699, 0.125
\* and 1e28
ExpectedValues ==
    { Dec(0, <<2, 5>>, 0 - 1), Dec(1, <<2, 5>>, 0 - 1), Dec(0, <<3, 2, 1, 6, 9, 9>>, 0 - 4),
      Dec(0, <<1, 2, 5>>, 0 - 3), Dec(0, <<1>>, 28) }

ExpectedUnits == { <<"m/s^2">>, <<"m^2">>, <<"a", ">", "b">>, <<"a", Quote, "b">> }

RECURSIVE Pow10(_)
Pow10(k) == IF k = 0 THEN 1 ELSE 10 * Pow10(k - 1)

RECURSIVE DigitsValue(_)
DigitsValue(ds) ==
    IF ds = << >> THEN 0 ELSE 10 * DigitsValue(Slice(ds, 1, Len(ds) - 1)) + ds[Len(ds)]

\* the digits of d that stand left of decimal place `places`, and those right of it
KeptDigits(d, places) ==
    IF d.exp + places >= 0 THEN d.int \o Zeros(d.exp + places)
    ELSE Slice(d.int, 1, Len(d.int) + d.exp + places)
DroppedValue(d, places) ==
    IF d.exp + places >= 0 THEN 0
    ELSE DigitsValue(Slice(d.int, Len(d.int) + d.exp + places + 1, Len(d.int)))
DroppedUnit(d, places) ==
    IF d.exp + places >= 0 THEN 1 ELSE Pow10(0 - d.exp - places)

\* d lies exactly halfway between two decimals of `places` places
IsTie(d, places) == 2 * DroppedValue(d, places) = DroppedUnit(d, places)

\* the two decimals of `places` places next to d: towards zero, away from zero
TowardsZero(d, places) == Dec(d.sign, StripLeadingZeros(KeptDigits(d, places)), 0 - places)
AwayFromZero(d, places) ==
    Dec(d.sign, StripLeadingZeros(Increment(KeptDigits(d, places))), 0 - places)

\* d rounded to `places` places, half away from zero
HalfAway(d, places) ==
    IF 2 * DroppedValue(d, places) >= DroppedUnit(d, places)
    THEN AwayFromZero(d, places) ELSE TowardsZero(d, places)

\* the other of the two neighbours
OtherNeighbour(d, places) ==
    IF 2 * DroppedValue(d, places) >= DroppedUnit(d, places)
    THEN TowardsZero(d, places) ELSE AwayFromZero(d, places)

UnitsAttr(u) == <<"units", "=", Quote>> \o u \o <<Quote>>
RoundingAttr(n) == <<"rounding", "=", Quote>> \o IntText(n) \o <<"dp", Quote>>
Tag(attrs, inner) == <<"<answer">> \o attrs \o <<">">> \o inner \o <<"</answer", ">">>

\* <answer units="U" rounding="{places}dp">V</answer>
CanonicalAnswer(u, places, v) == Tag(<<" ">> \o UnitsAttr(u) \o <<" ">> \o RoundingAttr(places), v)

AttrVariants(u, places) ==
    { <<" ">> \o UnitsAttr(u) \o <<" ">> \o RoundingAttr(places),
      <<" ">> \o UnitsAttr(<<"kg">>) \o <<" ">> \o RoundingAttr(places),
      <<" ">> \o UnitsAttr(u) \o <<" ">> \o RoundingAttr(places + 1),
      <<" ">> \o UnitsAttr(<<"kg">>) \o <<" ">> \o RoundingAttr(places + 1),
      <<" ">> \o RoundingAttr(places) \o <<"\n">> \o UnitsAttr(u),
      <<" ">> \o RoundingAttr(places),
      <<" ">> \o UnitsAttr(u),
      << >>,
      UnitsAttr(u) \o <<" ">> \o RoundingAttr(places) }

\* a literal with one more decimal place, a zero: the same number
AppendZero(v, places) == IF places = 0 THEN v \o <<".", "0">> ELSE v \o <<"0">>

\* a literal with its last decimal place cut off (places >= 1)
DropLastPlace(v, places) ==
    IF places = 1 THEN Slice(v, 1, Len(v) - 2) ELSE Slice(v, 1, Len(v) - 1)

\* the decimal literals tried as the inner text
LiteralVariants(d, places) ==
    LET v == DecText(HalfAway(d, places))
    IN  { v, DecText(OtherNeighbour(d, places)), AppendZero(v, places) }
        \cup (IF places >= 1 THEN {DropLastPlace(v, places)} ELSE {})

InnerVariants(d, places) ==
    LET v == DecText(HalfAway(d, places))
    IN  LiteralVariants(d, places)
        \cup { <<"+">> \o v, <<" ">> \o v \o <<"\n">>, <<"x">>, << >> }

Responses(d, u, places) ==
    LET v == DecText(HalfAway(d, places))
        one == CanonicalAnswer(u, places, v)
    IN  { Tag(a, i) : a \in AttrVariants(u, places), i \in InnerVariants(d, places) }
        \cup { lead \o one \o trail :
                 lead \in { << >>, <<"\n">>, <<"x", " ">> },
                 trail \in { << >>, <<" ", "\n">>, <<" ", "x">> } }
        \cup { one \o mid \o one : mid \in { << >>, <<"\n">> } }
        \cup { << >>, v, <<"<answer", ">">> \o v, Tag(<<" ">>, v) \o <<"</answer", ">">> }

InitMath ==
    /\ InitRetry({})
    /\ vpc = "called"
    /\ expected_value \in ExpectedValues
    /\ expected_units \in ExpectedUnits
    /\ dp \in 0..MaxDp
    /\ response \in Responses(expected_value, expected_units, dp)
    /\ verdict = [accepted |-> FALSE, reasons |-> << >>]
    /\ CodeIdle /\ JsonIdle /\ FocusIdle

\* the call runs and returns
ValidateMath ==
    /\ vpc = "called"
    /\ verdict' = validate_math_answer(response, expected_value, expected_units, dp)
    /\ vpc' = "returned"
    /\ UNCHANGED <<response, expected_value, expected_units, dp>>
    /\ UNCHANGED <<retryVars, codeVars, jsonVars, focusVars>>

NextMath == ValidateMath

SpecMath == InitMath /\ [][NextMath]_vars

----------------------------------------------------------------------------
(***************************************************************************)
(* Text as validate_code_block_normalize reads it.  The atoms are single   *)
(* characters, except that the fence of three backticks, the words of the  *)
(* code's patterns ("python", "#", "3.12,", "def", "list[float]",          *)
(* "__name__", ...), identifiers and module names are one atom each.  No   *)
(* atom holds a backtick but the fence, and no atom holds a pattern word   *)
(* inside it.                                                              *)
(***************************************************************************)
\* the three backticks of a fence; a TLA+ string cannot hold a backtick, so the
\* atom is written FENCE
Fence == "FENCE"

\* one step of a pattern: whitespace (\s*: "*", \s+: "+", none: "") and then one
\* literal out of lits
Tok(sep, lits) == [sep |-> sep, lits |-> lits]

\* matches the steps toks against s from atom i on; the index after the match, 0
\* when there is none.  Every literal is a non-space atom, so the greedy whitespace
\* never has to give back.
RECURSIVE MatchSeq(_, _, _)
MatchSeq(s, i, toks) ==
    IF toks = << >> THEN i
    ELSE LET t == toks[1]
             j == IF t.sep = "" THEN i ELSE SkipSpaces(s, i)
         IN  IF (t.sep = "+" /\ j = i) \/ j > Len(s) \/ s[j] \notin t.lits THEN 0
             ELSE MatchSeq(s, j + 1, Tail(toks))

\* ^ under re.MULTILINE: the start of the text or just after a newline
AtLineStart(s, i) == i = 1 \/ (i - 1 <= Len(s) /\ s[i - 1] = "\n")

\* \s*$ under re.MULTILINE from atom e on: the whitespace reaches the end of the
\* text or holds a newline
EndsLine(s, e) ==
    \E q \in e..SkipSpaces(s, e) : q = Len(s) + 1 \/ s[q] = "\n"

\* str.lower() of the fence's language tag
Lower(a) == IF a \in {"Python", "PYTHON"} THEN "python" ELSE a

\* the match of r"FENCEpython\s*\n(.*?)\nFENCE" (DOTALL, IGNORECASE) that starts at
\* atom i: \s*\n ends at a newline p of the whitespace after the tag, the latest
\* one that leaves a match, and the lazy group ends at the first newline q after p
\* that a fence follows
BlockMatchAt(s, i) ==
    LET w  == SkipSpaces(s, i + 2)
        ps == {p \in (i + 2)..(w - 1) : s[p] = "\n"}
        qs(p) == {q \in (p + 1)..(Len(s) - 1) : s[q] = "\n" /\ s[q + 1] = Fence}
        good == {p \in ps : qs(p) # {}}
        p == CHOOSE x \in good : \A y \in good : y <= x
        q == CHOOSE x \in qs(p) : \A y \in qs(p) : x <= y
    IN  IF /\ i + 1 <= Len(s)
           /\ s[i] = Fence /\ Lower(s[i + 1]) = "python"
           /\ good # {}
        THEN [ok |-> TRUE, group |-> Slice(s, p + 1, q - 1), end |-> q + 2]
        ELSE [ok |-> FALSE, group |-> << >>, end |-> 0]

\* re.findall of the block pattern from atom i on: the groups of the matches, left
\* to right, none overlapping
RECURSIVE FindBlocks(_, _)
FindBlocks(s, i) ==
    LET starts == {j \in i..Len(s) : BlockMatchAt(s, j).ok}
        m == BlockMatchAt(s, CHOOSE x \in starts : \A y \in starts : x <= y)
    IN  IF starts = {} THEN << >>
        ELSE <<m.group>> \o FindBlocks(s, m.end)

\* code.splitlines(): the lines between the newlines, no empty line after a final
\* newline, no line at all for an empty text
RECURSIVE SplitLines(_)
SplitLines(s) ==
    IF s = << >> THEN << >>
    ELSE LET nls == {i \in 1..Len(s) : s[i] = "\n"}
             n == CHOOSE x \in nls : \A y \in nls : x <= y
         IN  IF nls = {} THEN <<s>>
             ELSE <<Slice(s, 1, n - 1)>> \o SplitLines(Slice(s, n + 1, Len(s)))

\* r"^\s*#\s*Python\s*3\.12,\s*stdlib\s*only\s*$"
HeaderToks ==
    << Tok("*", {"#"}), Tok("*", {"Python"}), Tok("*", {"3.12,"}), Tok("*", {"stdlib"}),
       Tok("*", {"only"}) >>

\* the header pattern matched without regard to letter case, as under re.IGNORECASE
HeaderMatchesIgnoreCase(line) ==
    LET low == [i \in 1..Len(line) |-> Lower(line[i])]
        e == MatchSeq(low, 1, << Tok("*", {"#"}), Tok("*", {"python"}), Tok("*", {"3.12,"}),
                                 Tok("*", {"stdlib"}), Tok("*", {"only"}) >>)
    IN  e # 0 /\ SkipSpaces(low, e) = Len(low) + 1

\* re.match of the header pattern on a line (a text without newline)
HeaderMatches(line) ==
    LET e == MatchSeq(line, 1, HeaderToks)
    IN  e # 0 /\ SkipSpaces(line, e) = Len(line) + 1

\* r"^\s*def\s+normalize\s*\(\s*v\s*:\s*list\[float\]\s*\)\s*->\s*list\[float\]\s*:\s*$"
SignatureToks ==
    << Tok("*", {"def"}), Tok("+", {"normalize"}), Tok("*", {"("}), Tok("*", {"v"}),
       Tok("*", {":"}), Tok("*", {"list[float]"}), Tok("*", {")"}), Tok("*", {"->"}),
       Tok("*", {"list[float]"}), Tok("*", {":"}) >>

\* re.search of the signature pattern under re.MULTILINE
sig_ok(code) ==
    \E i \in 1..Len(code) :
        /\ AtLineStart(code, i)
        /\ MatchSeq(code, i, SignatureToks) # 0
        /\ EndsLine(code, MatchSeq(code, i, SignatureToks))

\* r'if\s+__name__\s*==\s*[\'"]__main__[\'"]\s*:'
GuardToks ==
    << Tok("", {"if"}), Tok("+", {"__name__"}), Tok("*", {"=="}), Tok("*", {Quote, "'"}),
       Tok("", {"__main__"}), Tok("", {Quote, "'"}), Tok("*", {":"}) >>

\* re.search of the main-guard pattern
HasMainGuard(code) == \E i \in 1..Len(code) : MatchSeq(code, i, GuardToks) # 0

\* atoms that hold a character outside [a-zA-Z0-9_\.]; every other atom is made of
\* the characters of [a-zA-Z0-9_\.]: the identifiers, the keywords and the dot
NonNameAtoms ==
    {Fence, "\n", " ", "\t", "#", "3.12,", "(", ")", ":", "list[float]", "->", "==", Quote,
     "'", ",", "[", "]"}

\* atoms that start with characters of [a-zA-Z0-9_\.] and go on with others
PartialNameAtoms == {"3.12,", "list[float]"}

\* the index of the first atom at or after i that is not of [a-zA-Z0-9_\.]
RECURSIVE SkipName(_, _)
SkipName(s, i) ==
    IF i <= Len(s) /\ s[i] \notin NonNameAtoms THEN SkipName(s, i + 1) ELSE i

\* the match of r"^\s*(?:from\s+([a-zA-Z0-9_\.]+)\s+import|import\s+([a-zA-Z0-9_\.]+))"
\* that starts at atom i: the group that took part (lib_a or lib_b) and the index
\* after the match.  A group that ends inside an atom holds that atom as its last.
ImportMatchAt(s, i) ==
    LET j == SkipSpaces(s, i)
        k == SkipSpaces(s, j + 1)
        e == SkipName(s, k)
        f == SkipSpaces(s, e)
        partial == e <= Len(s) /\ s[e] \in PartialNameAtoms
    IN  IF ~AtLineStart(s, i) \/ j > Len(s) \/ k = j + 1
        THEN [ok |-> FALSE, group |-> << >>, end |-> 0]
        ELSE IF s[j] = "from" /\ e > k /\ ~partial /\ f > e /\ f <= Len(s) /\ s[f] = "import"
             THEN [ok |-> TRUE, group |-> Slice(s, k, e - 1), end |-> f + 1]
        ELSE IF s[j] = "import" /\ partial
             THEN [ok |-> TRUE, group |-> Slice(s, k, e), end |-> e + 1]
        ELSE IF s[j] = "import" /\ e > k
             THEN [ok |-> TRUE, group |-> Slice(s, k, e - 1), end |-> e]
        ELSE [ok |-> FALSE, group |-> << >>, end |-> 0]

\* re.findall of the import pattern under re.MULTILINE, from atom i on
RECURSIVE FindImports(_, _)
FindImports(s, i) ==
    LET starts == {j \in i..Len(s) : ImportMatchAt(s, j).ok}
        m == ImportMatchAt(s, CHOOSE x \in starts : \A y \in starts : x <= y)
    IN  IF starts = {} THEN << >>
        ELSE <<m.group>> \o FindImports(s, m.end)

\* (lib_a or lib_b).split(".")[0]
TopLevelName(group) ==
    LET dots == {i \in 1..Len(group) : group[i] = "."}
    IN  IF dots = {} THEN group
        ELSE Slice(group, 1, (CHOOSE x \in dots : \A y \in dots : x <= y) - 1)

banned_libs ==
    {"numpy", "pandas", "requests", "torch", "tensorflow", "sklearn", "httpx", "aiohttp"}

----------------------------------------------------------------------------
(***************************************************************************)
(* validate_code_block_normalize.                                          *)
(***************************************************************************)
NotOneFence ==
    Reason("Response must contain exactly one fenced code block and nothing else.", << >>)
NotOnePythonBlock ==
    Reason("There must be exactly one {Fence}python ...{Fence} block.", << >>)
EmptyBlock ==
    Reason("Code block is empty.", << >>)
BadHeader ==
    Reason("First line must be \"# Python 3.12, stdlib only\".", << >>)
MissingSignature ==
    Reason("Missing exact function signature: def normalize(v: list[float]) -> list[float]:",
           << >>)
MissingMainGuard ==
    Reason("Missing main guard: if __name__ == \"__main__\":", << >>)
BannedImport(lib) ==
    Reason("Found non-stdlib import: \"{lib}\"", <<lib>>)

\* response.strip().startswith(Fence) and response.strip().endswith(Fence)
IsFenced(r) ==
    LET t == Strip(r)
    IN  t # << >> /\ t[1] = Fence /\ t[Len(t)] = Fence

\* no reason, whatever the first line is
HeaderReasonsNever(lines) == << >>

\* the reasons of the first line
HeaderReasons(lines) == IF HeaderMatches(lines[1]) THEN << >> ELSE <<BadHeader>>

\* the reasons of the signature
SignatureReasons(code) == IF sig_ok(code) THEN << >> ELSE <<MissingSignature>>

\* the reasons of the main guard
GuardReasons(code) == IF HasMainGuard(code) THEN << >> ELSE <<MissingMainGuard>>

\* the reason of each banned import put in front of the reasons found before it
RECURSIVE BannedReasonsReversed(_)
BannedReasonsReversed(banned) ==
    IF banned = << >> THEN << >>
    ELSE LET lib == TopLevelName(banned[1])
         IN  BannedReasonsReversed(Tail(banned))
             \o (IF lib \in {<<b>> : b \in banned_libs} THEN <<BannedImport(lib)>> ELSE << >>)

\* the loop over the matches of the import pattern: one reason for each match whose
\* top-level name is banned
RECURSIVE BannedReasons(_)
BannedReasons(banned) ==
    IF banned = << >> THEN << >>
    ELSE LET lib == TopLevelName(banned[1])
         IN  (IF lib \in {<<b>> : b \in banned_libs} THEN <<BannedImport(lib)>> ELSE << >>)
             \o BannedReasons(Tail(banned))

\* the reasons of the imports
ImportReasons(code) == BannedReasons(FindImports(code, 1))

validate_code_block_normalize(response_) ==
    LET blocks == FindBlocks(response_, 1)
        code == blocks[1]
        lines == SplitLines(code)
        reasons == HeaderReasons(lines) \o SignatureReasons(code) \o GuardReasons(code)
                   \o ImportReasons(code)
    IN  IF ~IsFenced(response_) THEN Verdict(FALSE, <<NotOneFence>>)
        ELSE IF Len(blocks) # 1 THEN Verdict(FALSE, <<NotOnePythonBlock>>)
        ELSE IF lines = << >> THEN Verdict(FALSE, <<EmptyBlock>>)
        ELSE Verdict(Len(reasons) = 0, reasons)

----------------------------------------------------------------------------
(***************************************************************************)
(* The calls of validate_code_block_normalize that are checked.            *)
(***************************************************************************)
HeaderLine == <<"#", " ", "Python", " ", "3.12,", " ", "stdlib", " ", "only">>
HeaderTight == <<"#", "Python", "3.12,", "stdlib", "only">>
HeaderLower == <<"#", " ", "python", " ", "3.12,", " ", "stdlib", " ", "only">>
SignatureLine ==
    <<"def", " ", "normalize", "(", "v", ":", " ", "list[float]", ")", " ", "->", " ",
      "list[float]", ":">>
BodyLine == <<" ", "return", " ", "v">>
GuardLine == <<"if", " ", "__name__", " ", "==", " ", Quote, "__main__", Quote, ":">>
DemoLine == <<" ", "pass">>

\* the import lines tried, as the lines that follow the first line
ImportLines ==
    { << >>,
      << <<"import", " ", "os">> >>,
      << <<"import", " ", "numpy">> >>,
      << <<"import", " ", "os", ",", " ", "numpy">> >>,
      << <<"import", " ", "numpy", " ", "as", " ", "np">>,
         <<"from", " ", "torch", ".", "nn", " ", "import", " ", "x">> >>,
      << <<" ", "import", " ", "pandas">> >>,
      << <<"from", " ", "numpy", ".", "linalg", " ", "import", " ", "x">>,
         <<"import", " ", "numpy">>, <<"import", " ", "sys">> >> }

RECURSIVE JoinLines(_)
\* "\n".join(lines)
JoinLines(lines) ==
    IF lines = << >> THEN << >>
    ELSE IF Len(lines) = 1 THEN lines[1]
    ELSE lines[1] \o <<"\n">> \o JoinLines(Tail(lines))

\* the texts tried as the content of a block
Codes ==
    { JoinLines(first \o imports \o sig \o guard) :
        first \in { <<HeaderLine>>, <<HeaderTight>>, <<HeaderLower>>, << >> },
        imports \in ImportLines,
        sig \in { <<SignatureLine, BodyLine>>, <<BodyLine>> },
        guard \in { <<GuardLine, DemoLine>>, << >> } }
    \cup { << >> }

\* a fenced block with a language tag
Block(tag, code) == <<Fence, tag, "\n">> \o code \o <<"\n", Fence>>

\* the responses tried around a block content
CodeResponses(code) ==
    LET one == Block("python", code)
    IN  { one,
          <<"\n">> \o Block("Python", code) \o <<" ", "\n">>,
          <<"Here", " ">> \o one,
          one \o <<"\n", "bye">>,
          one \o <<"\n">> \o one,
          one \o <<"\n">> \o Block("js", <<"x">>),
          Block("js", <<"x">>) \o <<"\n">> \o one,
          <<Fence, "python", "\n", Fence, "\n">> \o one,
          <<Fence, " ", "Here", " ">> \o one,
          one \o <<"\n", "bye", Fence>>,
          <<Fence, "\n">> \o code \o <<"\n", Fence>>,
          code }

InitCode ==
    /\ InitRetry({})
    /\ MathIdle /\ JsonIdle /\ FocusIdle
    /\ cpc = "called"
    /\ code_response \in UNION { CodeResponses(code) : code \in Codes }
    /\ code_verdict = [accepted |-> FALSE, reasons |-> << >>]

\* the call runs and returns
ValidateCode ==
    /\ cpc = "called"
    /\ code_verdict' = validate_code_block_normalize(code_response)
    /\ cpc' = "returned"
    /\ UNCHANGED code_response
    /\ UNCHANGED <<retryVars, mathVars, jsonVars, focusVars>>

NextCode == ValidateCode

SpecCode == InitCode /\ [][NextCode]_vars

----------------------------------------------------------------------------
(***************************************************************************)
(* json.loads as validate_response uses it.  The atoms of a raw text are   *)
(* the punctuation of JSON, the quote, whitespace, and whole words: the    *)
(* words of a string, a number literal, a constant.  A parsed value is a   *)
(* record of its Python type, the text of a str or number, the items of a  *)
(* list and the fields of a dict (a function of the key texts).            *)
(***************************************************************************)
JV(type, text, items, fields) ==
    [type |-> type, text |-> text, items |-> items, fields |-> fields]

None == JV("NoneType", << >>, << >>, << >>)
JBool(a) == JV("bool", <<a>>, << >>, << >>)
JNumber(a) == JV("number", <<a>>, << >>, << >>)
JString(text) == JV("str", text, << >>, << >>)
JList(items) == JV("list", << >>, items, << >>)
JDict(fields) == JV("dict", << >>, << >>, fields)

\* the number literals of the raw texts
NumberAtoms == {"0", "0.0", "0.9", "1", "5"}

\* the constants json.loads takes: those of JSON, and NaN, Infinity, -Infinity
PythonConstants == {"null", "true", "false", "NaN", "Infinity", "-Infinity"}

\* the value of a constant
ConstantValue(a) ==
    IF a = "null" THEN None
    ELSE IF a \in {"true", "false"} THEN JBool(a)
    ELSE JNumber(a)

ParseFail == [ok |-> FALSE, val |-> None, next |-> 0]
Parsed(val, next) == [ok |-> TRUE, val |-> val, next |-> next]

\* the fields of a dict with one more member; a repeated key keeps the last value
WithMember(fields, key, val) ==
    [k \in (DOMAIN fields) \cup {key} |-> IF k = key THEN val ELSE fields[k]]

\* py_scanstring with strict=True: from the opening quote at atom i to the next
\* quote; a control character inside the string is an error
ParseString(s, i) ==
    LET qs == {q \in (i + 1)..Len(s) : s[q] = Quote}
        q == CHOOSE x \in qs : \A y \in qs : x <= y
    IN  IF qs = {} \/ \E c \in (i + 1)..(q - 1) : s[c] \in {"\n", "\t"} THEN ParseFail
        ELSE Parsed(JString(Slice(s, i + 1, q - 1)), q + 1)

RECURSIVE ParseValue(_, _), ParseMembers(_, _, _), ParseElements(_, _, _)

\* scan_once: the value that starts at atom i
ParseValue(s, i) ==
    IF i > Len(s) THEN ParseFail
    ELSE IF s[i] = Quote THEN ParseString(s, i)
    ELSE IF s[i] = "{"
         THEN LET j == SkipSpaces(s, i + 1)
              IN  IF j <= Len(s) /\ s[j] = "}" THEN Parsed(JDict(<< >>), j + 1)
                  ELSE ParseMembers(s, j, << >>)
    ELSE IF s[i] = "["
         THEN LET j == SkipSpaces(s, i + 1)
              IN  IF j <= Len(s) /\ s[j] = "]" THEN Parsed(JList(<< >>), j + 1)
                  ELSE ParseElements(s, j, << >>)
    ELSE IF s[i] \in NumberAtoms THEN Parsed(JNumber(s[i]), i + 1)
    ELSE IF s[i] \in PythonConstants THEN Parsed(ConstantValue(s[i]), i + 1)
    ELSE ParseFail

\* JSONObject: the members from the key at atom i on, fields being those read so far
ParseMembers(s, i, fields) ==
    LET key == IF i <= Len(s) /\ s[i] = Quote THEN ParseString(s, i) ELSE ParseFail
        c == SkipSpaces(s, key.next)
        val == ParseValue(s, SkipSpaces(s, c + 1))
        e == SkipSpaces(s, val.next)
        more == WithMember(fields, key.val.text, val.val)
    IN  IF ~key.ok \/ c > Len(s) \/ s[c] # ":" THEN ParseFail
        ELSE IF ~val.ok \/ e > Len(s) THEN ParseFail
        ELSE IF s[e] = "}" THEN Parsed(JDict(more), e + 1)
        ELSE IF s[e] = "," THEN ParseMembers(s, SkipSpaces(s, e + 1), more)
        ELSE ParseFail

\* JSONArray: the elements from atom i on, items being those read so far
ParseElements(s, i, items) ==
    LET val == ParseValue(s, i)
        e == SkipSpaces(s, val.next)
    IN  IF ~val.ok \/ e > Len(s) THEN ParseFail
        ELSE IF s[e] = "]" THEN Parsed(JList(Append(items, val.val)), e + 1)
        ELSE IF s[e] = "," THEN ParseElements(s, SkipSpaces(s, e + 1), Append(items, val.val))
        ELSE ParseFail

\* a json.loads that stops at the end of the first value and ignores what follows
json_loadsFirstValue(raw_) == ParseValue(raw_, SkipSpaces(raw_, 1))

\* json.loads(raw): one value with only whitespace around it; ok is FALSE where
\* json.loads raises JSONDecodeError
json_loads(raw_) ==
    LET v == ParseValue(raw_, SkipSpaces(raw_, 1))
    IN  IF v.ok /\ SkipSpaces(raw_, v.next) = Len(raw_) + 1 THEN v ELSE ParseFail

----------------------------------------------------------------------------
(***************************************************************************)
(* validate_response.  A step of the function is the exception it raises   *)
(* ("none" when it raises none) and the errors it appends.                 *)
(***************************************************************************)
AllowedVerdicts == { <<"permit">>, <<"forbid">>, <<"conditional">> }

\* the word limit of the free-text fields
MaxWords == 60

\* count_words: len(text.strip().split()), the runs of atoms that are not whitespace
count_words(words) ==
    Cardinality({i \in 1..Len(words) :
                    ~IsSpace(words[i]) /\ (i = 1 \/ IsSpace(words[i - 1]))})

Step(exception, errors) == [raised |-> exception, errors |-> errors]

\* step a, and step b after it unless a raised
Then(a, b) ==
    IF a.raised # "none" THEN a ELSE Step(b.raised, a.errors \o b.errors)

\* bool(x)
Truthy(x) ==
    IF x.type = "dict" THEN DOMAIN x.fields # {}
    ELSE IF x.type = "list" THEN x.items # << >>
    ELSE IF x.type = "str" THEN x.text # << >>
    ELSE IF x.type = "number" THEN x.text \notin {<<"0">>, <<"0.0">>}
    ELSE x.text = <<"true">>

\* whether `key in x` raises TypeError: x is not a container
InRaises(x) == x.type \in {"number", "bool", "NoneType"}

\* `key in x` for a dict (its keys), a list (its items) or a str (its substrings)
In(key, x) ==
    IF x.type = "dict" THEN key \in DOMAIN x.fields
    ELSE IF x.type = "list"
         THEN \E i \in 1..Len(x.items) : x.items[i].type = "str" /\ x.items[i].text = key
    ELSE Contains(x.text, key)

\* x.get(key, default) of a dict x
Get(x, key, default) == IF key \in DOMAIN x.fields THEN x.fields[key] ELSE default

\* whether x can be a member of a set: `x in AllowedVerdicts` raises TypeError otherwise
Hashable(x) == x.type \notin {"dict", "list"}

\* x not in AllowedVerdicts, for a hashable x
NotAllowed(x) == ~(x.type = "str" /\ x.text \in AllowedVerdicts)

MissingKey(key) == Reason("Missing key: {key}", <<key>>)
MissingLens(k) == Reason("Missing lens: {k}", <<k>>)
LensVerdictInvalid(k) == Reason("{k}.verdict invalid or missing", <<k>>)
LensRationaleMissing(k) == Reason("{k}.rationale missing or not string", <<k>>)
LensRationaleTooLong(k) == Reason("{k}.rationale > 60 words", <<k>>)
DepVerdictInvalid == Reason("deployment_recommendation.verdict invalid or missing", << >>)
DepConditionsMissing ==
    Reason("deployment_recommendation.conditions missing or not list", << >>)
OversightNotList == Reason("oversight_plan not a list", << >>)
CounterargumentMissing == Reason("counterargument.claim/test missing or not string", << >>)
ClaimTooLong == Reason("counterargument.claim > 60 words", << >>)
TestTooLong == Reason("counterargument.test > 60 words", << >>)
ResidualNotList == Reason("residual_risks not a list", << >>)
ConfidenceNotNumber == Reason("confidence not a number", << >>)
InvalidJson == Reason("Invalid JSON", << >>)

RequiredKeys ==
    << <<"per_lens">>, <<"deployment_recommendation">>, <<"oversight_plan">>,
       <<"counterargument">>, <<"residual_risks">>, <<"confidence">> >>

Lenses == << <<"utilitarianism">>, <<"deontology">>, <<"virtue_ethics">>, <<"care_ethics">> >>

\* only the first absent key is reported
RECURSIVE KeysStepFirstOnly(_, _)
KeysStepFirstOnly(data, keys) ==
    IF keys = << >> THEN Step("none", << >>)
    ELSE IF InRaises(data) THEN Step("TypeError", << >>)
    ELSE IF ~In(keys[1], data) THEN Step("none", <<MissingKey(keys[1])>>)
    ELSE KeysStepFirstOnly(data, Tail(keys))

\* the loop over the core keys: `if key not in data`
RECURSIVE KeysStep(_, _)
KeysStep(data, keys) ==
    IF keys = << >> THEN Step("none", << >>)
    ELSE IF InRaises(data) THEN Step("TypeError", << >>)
    ELSE Then(Step("none", IF In(keys[1], data) THEN << >> ELSE <<MissingKey(keys[1])>>),
              KeysStep(data, Tail(keys)))

\* the verdict and rationale checks of one lens entry
LensStep(k, lens) ==
    LET v == Get(lens, <<"verdict">>, None)
        rationale == Get(lens, <<"rationale">>, Get(lens, <<"Rationale">>, None))
    IN  IF lens.type # "dict" THEN Step("AttributeError", << >>)
        ELSE IF ~Hashable(v) THEN Step("TypeError", << >>)
        ELSE Step("none",
                  (IF NotAllowed(v) THEN <<LensVerdictInvalid(k)>> ELSE << >>)
                  \o (IF rationale.type # "str" THEN <<LensRationaleMissing(k)>>
                      ELSE IF count_words(rationale.text) > MaxWords
                           THEN <<LensRationaleTooLong(k)>>
                      ELSE << >>))

\* the loop over the four lenses; per_lens[k] of a list or str raises TypeError
RECURSIVE LensesStep(_, _)
LensesStep(per_lens, ks) ==
    IF ks = << >> THEN Step("none", << >>)
    ELSE IF InRaises(per_lens) THEN Step("TypeError", << >>)
    ELSE Then(IF ~In(ks[1], per_lens) THEN Step("none", <<MissingLens(ks[1])>>)
              ELSE IF per_lens.type # "dict" THEN Step("TypeError", << >>)
              ELSE LensStep(ks[1], per_lens.fields[ks[1]]),
              LensesStep(per_lens, Tail(ks)))

\* the checks of deployment_recommendation, skipped for a falsy value
DeploymentStep(dep) ==
    LET v == Get(dep, <<"verdict">>, None)
        conditions == Get(dep, <<"conditions">>, None)
    IN  IF ~Truthy(dep) THEN Step("none", << >>)
        ELSE IF dep.type # "dict" THEN Step("AttributeError", << >>)
        ELSE IF ~Hashable(v) THEN Step("TypeError", << >>)
        ELSE Step("none",
                  (IF NotAllowed(v) THEN <<DepVerdictInvalid>> ELSE << >>)
                  \o (IF conditions.type # "list" \/ ~Truthy(conditions)
                      THEN <<DepConditionsMissing>> ELSE << >>))

\* isinstance(data.get(key), list)
ListStep(data, key, reason) ==
    Step("none", IF Get(data, key, None).type # "list" THEN <<reason>> ELSE << >>)

\* the checks of counterargument
CounterargumentStep(ca) ==
    LET claim == Get(ca, <<"claim">>, None)
        test == Get(ca, <<"test">>, None)
    IN  IF ca.type # "dict" THEN Step("AttributeError", << >>)
        ELSE IF claim.type # "str" \/ test.type # "str"
             THEN Step("none", <<CounterargumentMissing>>)
        ELSE Step("none",
                  (IF count_words(claim.text) > MaxWords THEN <<ClaimTooLong>> ELSE << >>)
                  \o (IF count_words(test.text) > MaxWords THEN <<TestTooLong>> ELSE << >>))

\* isinstance(data.get("confidence"), (int, float)); a bool is an int
ConfidenceStep(data) ==
    Step("none", IF Get(data, <<"confidence">>, None).type \notin {"number", "bool"}
                 THEN <<ConfidenceNotNumber>> ELSE << >>)

\* what a call of validate_response ends in: the exception it raised ("none" when
\* it returned) and the tuple (accepted, errors, data) it returned
Outcome(exception, accepted, reasons, data) ==
    [raised |-> exception, accepted |-> accepted, reasons |-> reasons, data |-> data]

\* the steps after json.loads, in the order of the code; data.get of a value that
\* is not a dict raises AttributeError
ChecksOf(data) ==
    Then(KeysStep(data, RequiredKeys),
    Then(IF data.type # "dict" THEN Step("AttributeError", << >>) ELSE Step("none", << >>),
    Then(LensesStep(Get(data, <<"per_lens">>, JDict(<< >>)), Lenses),
    Then(DeploymentStep(Get(data, <<"deployment_recommendation">>, JDict(<< >>))),
    Then(ListStep(data, <<"oversight_plan">>, OversightNotList),
    Then(CounterargumentStep(Get(data, <<"counterargument">>, JDict(<< >>))),
    Then(ListStep(data, <<"residual_risks">>, ResidualNotList),
         ConfidenceStep(data))))))))

validate_response(raw_) ==
    LET parsed == json_loads(raw_)
        data == parsed.val
        checks == ChecksOf(data)
    IN  IF ~parsed.ok THEN Outcome("none", FALSE, <<InvalidJson>>, None)
        ELSE IF checks.raised # "none" THEN Outcome(checks.raised, FALSE, << >>, None)
        ELSE Outcome("none", Len(checks.errors) = 0, checks.errors, data)

----------------------------------------------------------------------------
(***************************************************************************)
(* The calls of validate_response that are checked.                        *)
(***************************************************************************)
StrText(words) == <<Quote>> \o words \o <<Quote>>

Member(key, value) == StrText(<<key>>) \o <<":", " ">> \o value

RECURSIVE JoinComma(_)
JoinComma(parts) ==
    IF parts = << >> THEN << >>
    ELSE IF Len(parts) = 1 THEN parts[1]
    ELSE parts[1] \o <<",", " ">> \o JoinComma(Tail(parts))

ObjText(members) == <<"{">> \o JoinComma(members) \o <<"}">>
ArrText(items) == <<"[">> \o JoinComma(items) \o <<"]">>

\* {"verdict": v, "rationale": "net benefit"}
LensText(v) ==
    ObjText(<<Member("verdict", v), Member("rationale", StrText(<<"net", " ", "benefit">>))>>)

GoodLens == LensText(StrText(<<"permit">>))

\* per_lens with the entry of the first lens replaced
PerLensText(first) ==
    ObjText(<<Member("utilitarianism", first), Member("deontology", GoodLens),
              Member("virtue_ethics", GoodLens), Member("care_ethics", GoodLens)>>)

DepText(v, conditions) ==
    ObjText(<<Member("verdict", v), Member("conditions", conditions)>>)

CaText(claim) ==
    ObjText(<<Member("claim", claim), Member("test", StrText(<<"run", " ", "audit">>))>>)

\* the values of the six required keys in a document that is accepted
GoodValues ==
    << PerLensText(GoodLens),
       DepText(StrText(<<"conditional">>), ArrText(<<StrText(<<"audit">>)>>)),
       ArrText(<<StrText(<<"metric_audits">>), StrText(<<"appeals_process">>)>>),
       CaText(StrText(<<"may", " ", "harm">>)),
       ArrText(<<StrText(<<"drift">>)>>),
       <<"0.9">> >>

\* the values tried for each required key beside the good one
Variants ==
    << { ObjText(<<Member("deontology", GoodLens), Member("virtue_ethics", GoodLens),
                   Member("care_ethics", GoodLens)>>),
         PerLensText(StrText(<<"permit">>)),
         PerLensText(LensText(StrText(<<"maybe">>))),
         PerLensText(LensText(ArrText(<<StrText(<<"permit">>)>>))),
         PerLensText(ObjText(<<Member("verdict", StrText(<<"forbid">>)),
                               Member("Rationale", StrText(<<"duty">>))>>)),
         PerLensText(ObjText(<<Member("verdict", StrText(<<"forbid">>)),
                               Member("rationale", <<"5">>)>>)),
         ArrText(<<StrText(<<"utilitarianism">>)>>),
         ArrText(<< >>), ObjText(<< >>), <<"5">>, <<"null">>,
         StrText(<<"care_ethics">>) },
       { DepText(StrText(<<"maybe">>), ArrText(<<StrText(<<"audit">>)>>)),
         DepText(StrText(<<"permit">>), ArrText(<< >>)),
         DepText(ObjText(<< >>), ArrText(<<StrText(<<"audit">>)>>)),
         ObjText(<<Member("verdict", StrText(<<"permit">>))>>),
         ObjText(<< >>), <<"null">>, <<"0">>, <<"1">>, StrText(<<"permit">>),
         ArrText(<<StrText(<<"permit">>)>>) },
       { StrText(<<"metric_audits">>), <<"null">>, ObjText(<< >>) },
       { CaText(<<"5">>),
         ObjText(<<Member("claim", StrText(<<"may", " ", "harm">>))>>),
         ObjText(<< >>), ArrText(<< >>), <<"null">>, StrText(<<"claim">>) },
       { StrText(<<"drift">>), <<"null">> },
       { StrText(<<"high">>), <<"true">>, <<"null">>, <<"0">>, <<"NaN">>,
         ArrText(<<<<"0.9">>>>) } >>

NonEmpty(part) == part # << >>

\* the document whose required key i has the value vals[i], or is absent when
\* vals[i] is empty
DocText(vals) ==
    ObjText(SelectSeq([i \in 1..6 |-> IF vals[i] = << >> THEN << >>
                                      ELSE Member(RequiredKeys[i][1], vals[i])],
                      NonEmpty))

\* documents with any set of the required keys absent and good values elsewhere
DocsWithAbsentKeys ==
    { DocText([i \in 1..6 |-> IF i \in absent THEN << >> ELSE GoodValues[i]]) :
        absent \in SUBSET (1..6) }

\* documents with one value replaced by a variant, alone or with the two last
\* keys absent
DocsWithVariant ==
    UNION { { DocText([i \in 1..6 |-> IF i = k THEN v
                                      ELSE IF i \in absent THEN << >>
                                      ELSE GoodValues[i]]) :
                v \in Variants[k], absent \in {{}, {5, 6} \ {k}} } :
            k \in 1..6 }

\* n words, one space between them
RECURSIVE WordsText(_)
WordsText(n) ==
    IF n = 0 THEN << >>
    ELSE IF n = 1 THEN <<"w">>
    ELSE <<"w", " ">> \o WordsText(n - 1)

\* n words (n >= 2) with a space before, two spaces after the first word and a space
\* after the last
PaddedWordsText(n) == <<" ", "w", " ", " ">> \o WordsText(n - 1) \o <<" ">>

\* free texts at the word limit and one word over it, beside a short one
FreeTexts ==
    { <<"may", " ", "harm">>, WordsText(MaxWords), PaddedWordsText(MaxWords),
      WordsText(MaxWords + 1) }

\* documents whose first lens rationale and whose counterargument texts are free
\* texts; counterargument.test may also be a number, and counterargument null
DocsWithFreeText ==
    { DocText([GoodValues EXCEPT
                 ![1] = PerLensText(ObjText(<<Member("verdict", StrText(<<"permit">>)),
                                              Member("rationale", StrText(r))>>)),
                 ![4] = ca]) :
        r \in FreeTexts,
        ca \in { ObjText(<<Member("claim", StrText(c)), Member("test", t)>>) :
                    c \in FreeTexts, t \in {StrText(x) : x \in FreeTexts} \cup {<<"5">>} }
               \cup { <<"null">> } }

\* texts json.loads takes that are not a JSON object
NonObjectTexts ==
    { ArrText(<< >>), ArrText(<<DocText(GoodValues)>>), ArrText(<<StrText(<<"per_lens">>)>>),
      <<"5">>, <<"0">>, <<"null">>, <<"true">>, <<"NaN">>, StrText(<<"per_lens">>),
      StrText(<< >>) }

\* texts json.loads raises JSONDecodeError on: the empty text, truncated documents,
\* prose around a document, a trailing comma, single quotes, a key without
\* quotes, a missing colon or comma, a newline inside a string, a bare word
MalformedTexts ==
    { << >>, <<" ">>, <<"{">>,
      Slice(DocText(GoodValues), 1, Len(DocText(GoodValues)) - 1),
      DocText(GoodValues) \o <<" ", "Done">>,
      <<"Here", " ">> \o DocText(GoodValues),
      DocText(GoodValues) \o DocText(GoodValues),
      <<"{">> \o Member("confidence", <<"0.9">>) \o <<",", "}">>,
      <<"{", "'", "confidence", "'", ":", " ", "0.9", "}">>,
      <<"{", "confidence", ":", " ", "0.9", "}">>,
      <<"{">> \o StrText(<<"confidence">>) \o <<" ", "0.9", "}">>,
      <<"[", "1", " ", "5", "]">>, <<"[", "1", ",", "]">>,
      StrText(<<"a", "\n", "b">>), <<Quote, "a">>, <<"undefined">> }

InitJson ==
    /\ InitRetry({})
    /\ MathIdle /\ CodeIdle /\ FocusIdle
    /\ jpc = "called"
    /\ raw \in DocsWithAbsentKeys \cup DocsWithVariant \cup DocsWithFreeText
                \cup NonObjectTexts \cup MalformedTexts
    /\ outcome = Outcome("none", FALSE, << >>, JV("none", << >>, << >>, << >>))

\* the call runs, and returns or raises
ValidateResponse ==
    /\ jpc = "called"
    /\ outcome' = validate_response(raw)
    /\ jpc' = IF validate_response(raw).raised = "none" THEN "returned" ELSE "raised"
    /\ UNCHANGED raw
    /\ UNCHANGED <<retryVars, mathVars, codeVars, focusVars>>

NextJson == ValidateResponse

SpecJson == InitJson /\ [][NextJson]_vars

----------------------------------------------------------------------------
(***************************************************************************)
(* analyze_focus.  The atoms of a text are whole words, except that a word *)
(* one keyword shares with a longer one is split where the shorter ends    *)
(* ("sqli" is "sql", "i"; "injection" is "i", "njection"), so that a       *)
(* keyword occurs in a text of FocusAtoms only as a run of whole atoms.    *)
(***************************************************************************)
SQL_KEYS ==
    << <<"sql", " ", "i", "njection">>, <<"sql", "i">>, <<"parameter", "ized">>,
       <<"prepared", " ", "statement">>, <<"prepared", " ", "statement", "s">>,
       <<"bind", " ", "parameter">>, <<"bind", " ", "parameter", "s">>, <<"escape">>,
       <<"sanitize">> >>

AUTH_KEYS ==
    << <<"auth", "entication", " ", "bypass">>, <<"auth", " ", "bypass">>,
       <<"bypass", " ", "auth", "entication">>, <<"logic", " ", "flaw">>,
       <<"privilege", " ", "escalation">>, <<"session", " ", "fixation">>, <<"remember">>,
       <<"is_admin">> >>

OFF_TOPIC ==
    << <<"xss">>, <<"csrf">>, <<"ssrf">>, <<"rce">>, <<"xxe">>, <<"deserialization">>,
       <<"clickjacking">> >>

\* atoms that are not made of word characters (\w)
NonWordAtoms == {" ", "\n", "\t", ".", "!", "?", ","}

\* str.lower() of an atom
LowerAtom(a) ==
    IF a = "Escape" THEN "escape"
    ELSE IF a = "SQL" THEN "sql"
    ELSE IF a = "XSS" THEN "xss"
    ELSE a

\* text.lower()
LowerText(text) == [i \in 1..Len(text) |-> LowerAtom(text[i])]

\* len(re.findall(r"\w+", text)): the maximal runs of word atoms
_count_words(text) ==
    Cardinality({i \in 1..Len(text) :
                    /\ text[i] \notin NonWordAtoms
                    /\ (i = 1 \/ text[i - 1] \in NonWordAtoms)})

\* re.split(r"(?<=[.!?])\s+", text) of a text without whitespace at its ends: cut
\* at each run of whitespace that follows ".", "!" or "?"
RECURSIVE SplitSentences(_)
SplitSentences(text) ==
    LET cuts == {i \in 2..Len(text) : IsSpace(text[i]) /\ text[i - 1] \in {".", "!", "?"}}
        c == CHOOSE x \in cuts : \A y \in cuts : x <= y
    IN  IF cuts = {} THEN <<text>>
        ELSE <<Slice(text, 1, c - 1)>>
             \o SplitSentences(Slice(text, SkipSpaces(text, c), Len(text)))

\* _sentences: the parts of the stripped text that are not empty
_sentences(text) == SelectSeq(SplitSentences(Strip(text)), NonEmpty)

\* str.count: the occurrences of k in t from atom i on, left to right, none
\* overlapping
RECURSIVE CountFrom(_, _, _)
CountFrom(t, k, i) ==
    LET starts == {j \in i..(Len(t) - Len(k) + 1) : Slice(t, j, j + Len(k) - 1) = k}
        j == CHOOSE x \in starts : \A y \in starts : x <= y
    IN  IF starts = {} THEN 0 ELSE 1 + CountFrom(t, k, j + Len(k))

\* sum(t.count(k) for k in keys)
RECURSIVE SumCounts(_, _)
SumCounts(t, keys) ==
    IF keys = << >> THEN 0 ELSE CountFrom(t, keys[1], 1) + SumCounts(t, Tail(keys))

_count_any(text, keys) == SumCounts(LowerText(text), keys)

_contains_any(text, keys) ==
    \E n \in 1..Len(keys) : Contains(LowerText(text), keys[n])

\* n / d cut off after the third decimal place, in thousandths
Round3Truncated(n, d) == (1000 * n) \div d

\* round(n / d, 3) in thousandths, ties to the even thousandth
Round3(n, d) ==
    LET q == (1000 * n) \div d
        r == (1000 * n) % d
    IN  IF 2 * r > d \/ (2 * r = d /\ q % 2 = 1) THEN q + 1 ELSE q

\* the sentence total without its floor of one
SentTotalOfLen(sents) == Len(sents)

\* max(len(sent), 1)
SentTotal(sents) == IF Len(sents) > 1 THEN Len(sents) ELSE 1

\* the dict analyze_focus returns, or the exception it raises; snr is in
\* thousandths
Snapshot(exception, sql_hits, auth_hits, offtopic_hits, snr, words, sent_total) ==
    [raised |-> exception, mentions_sql |-> sql_hits > 0, mentions_auth_bypass |-> auth_hits > 0,
     target_hits |-> sql_hits + auth_hits, offtopic_hits |-> offtopic_hits,
     focus_score |-> sql_hits + auth_hits - offtopic_hits, snr |-> snr,
     length_words |-> words, sentences |-> sent_total]

analyze_focus(text) ==
    LET words == _count_words(text)
        sents == _sentences(text)
        sent_total == SentTotal(sents)
        sql_hits == _count_any(text, SQL_KEYS)
        auth_hits == _count_any(text, AUTH_KEYS)
        offtopic_hits == _count_any(text, OFF_TOPIC)
        target_sentences ==
            Cardinality({n \in 1..Len(sents) :
                            _contains_any(sents[n], SQL_KEYS) \/ _contains_any(sents[n], AUTH_KEYS)})
    IN  IF sent_total = 0
        THEN Snapshot("ZeroDivisionError", 0, 0, 0, 0, 0, 0)
        ELSE Snapshot("none", sql_hits, auth_hits, offtopic_hits,
                      Round3(target_sentences, sent_total), words, sent_total)

\* the atoms of the texts analyzed
FocusAtoms == {"sql", "i", " ", "njection", ".", "xss", "Escape", "?"}

\* texts of three sentences, one and two of them on topic, and one of six
SampleFocusTexts ==
    { <<"Escape", ".", " ", "xss", ".", " ", "xss", "?">>,
      <<"sql", " ", "i", "njection", ".", " ", " ", "Escape", "?", "\n", "xss", ".">>,
      <<" ", "sql", "i", ".", " ", "xss", ".", " ", "xss", ".", " ", "xss", ".", " ", "xss",
        ".", " ", "csrf", " ", "Escape", " ", "escape", "\n">> }

\* the texts of at most MaxFocusLen atoms, and the sample texts
FocusTexts == UNION { [1..n -> FocusAtoms] : n \in 0..MaxFocusLen } \cup SampleFocusTexts

InitFocus ==
    /\ InitRetry({})
    /\ MathIdle /\ CodeIdle /\ JsonIdle
    /\ fpc = "called"
    /\ focus_text \in FocusTexts
    /\ snapshot = Snapshot("none", 0, 0, 0, 0, 0, 0)

\* the call runs, and returns or raises
AnalyzeFocus ==
    /\ fpc = "called"
    /\ snapshot' = analyze_focus(focus_text)
    /\ fpc' = IF analyze_focus(focus_text).raised = "none" THEN "returned" ELSE "raised"
    /\ UNCHANGED focus_text
    /\ UNCHANGED <<retryVars, mathVars, codeVars, jsonVars>>

NextFocus == AnalyzeFocus

SpecFocus == InitFocus /\ [][NextFocus]_vars

----------------------------------------------------------------------------
(***************************************************************************)
(* The three validators together: one call of one of them.                 *)
(***************************************************************************)
InitValidators == InitMath \/ InitCode \/ InitJson

NextValidators == ValidateMath \/ ValidateCode \/ ValidateResponse

SpecValidators == InitValidators /\ [][NextValidators]_vars

----------------------------------------------------------------------------
(***************************************************************************)
(* Properties of validate_math_answer.                                     *)
(***************************************************************************)
Range(s) == {s[i] : i \in 1..Len(s)}

Count(s, a) == Cardinality({i \in 1..Len(s) : s[i] = a})

\* a unit text that holds neither a quote nor a ">"
UnitIsPlain(u) == u # << >> /\ \A i \in 1..Len(u) : u[i] \notin {">", Quote}

\* attributes that leave the opening tag in one piece
AttrsArePlain(a) ==
    /\ a = << >> \/ ~StartsWithWordChar(a[1])
    /\ \A i \in 1..Len(a) : a[i] # ">"

\* the number of decimal places a decimal literal is written with
PlacesOf(lit) ==
    IF \E i \in 1..Len(lit) : lit[i] = "."
    THEN Len(lit) - (CHOOSE i \in 1..Len(lit) : lit[i] = ".")
    ELSE 0

\* the literals of another number of places that stand for the same number as v
SameNumberOtherPlaces(v, places) ==
    {AppendZero(v, places)}
        \cup (IF places >= 1 /\ v[Len(v)] = "0" THEN {DropLastPlace(v, places)} ELSE {})

\* the response is one <answer ...>...</answer> pair with only whitespace around it
OneTagPair(r) ==
    LET s == Strip(r)
    IN  /\ Count(r, "<answer") = 1
        /\ Count(r, "</answer") = 1
        /\ Len(s) >= 4
        /\ s[1] = "<answer"
        /\ s[Len(s) - 1] = "</answer" /\ s[Len(s)] = ">"

\* C7: for every expected value, every non-empty unit U and every dp, the response
\* <answer units="U" rounding="{dp}dp">V</answer>, V the expected value rounded half
\* away from zero and written with dp places, is accepted with no reason.
C7_RoundedAnswerAccepted ==
    ( /\ vpc = "returned"
      /\ expected_units # << >>
      /\ response = CanonicalAnswer(expected_units, dp,
                                    DecText(HalfAway(expected_value, dp))) )
    => verdict = Verdict(TRUE, << >>)

\* C8: a well-shaped response whose decimal literal has another number of places
\* than dp is rejected with the precision-mismatch reason, and that is the only
\* reason when the literal equals the rounded expected value and the unit and
\* rounding attributes are right.
C8_WrongPlacesRejected ==
    vpc = "returned" =>
        /\ \A a \in AttrVariants(expected_units, dp) :
           \A lit \in LiteralVariants(expected_value, dp) :
              ( /\ AttrsArePlain(a)
                /\ response = Tag(a, lit)
                /\ PlacesOf(lit) # dp )
              => /\ ~verdict.accepted
                 /\ WrongPlaces(dp, PlacesOf(lit)) \in Range(verdict.reasons)
        /\ \A lit \in SameNumberOtherPlaces(DecText(HalfAway(expected_value, dp)), dp) :
              ( /\ UnitIsPlain(expected_units)
                /\ response = CanonicalAnswer(expected_units, dp, lit) )
              => verdict = Verdict(FALSE, <<WrongPlaces(dp, PlacesOf(lit))>>)

\* C9: of the two dp-place neighbours of an expected value that lies halfway
\* between them only the one larger in magnitude is accepted, whatever the sign;
\* and a well-formed response that carries the dp-place neighbour the expected
\* value does not round to is rejected with a numeric-mismatch reason.
C9_HalfAwayFromZero ==
    (vpc = "returned" /\ UnitIsPlain(expected_units)) =>
        /\ IsTie(expected_value, dp) =>
              /\ response = CanonicalAnswer(expected_units, dp,
                                            DecText(AwayFromZero(expected_value, dp)))
                    => verdict.accepted
              /\ response = CanonicalAnswer(expected_units, dp,
                                            DecText(TowardsZero(expected_value, dp)))
                    => ~verdict.accepted
        /\ response = CanonicalAnswer(expected_units, dp,
                                      DecText(OtherNeighbour(expected_value, dp)))
              => /\ ~verdict.accepted
                 /\ \E i \in 1..Len(verdict.reasons) :
                       verdict.reasons[i].msg = NumericMismatch(<< >>, << >>, 0).msg

\* C10: every response that is not exactly one <answer> pair with only whitespace
\* around it is rejected with the not-exactly-one-tag reason and no other reason.
C10_OnlyOneTagPair ==
    (vpc = "returned" /\ ~OneTagPair(response)) => verdict = Verdict(FALSE, <<NotOneTag>>)

\* the check of validate_math_answer a reason reports on
MathCheckOf(reason) ==
    IF reason.msg \in {MissingUnits.msg, WrongUnits(<< >>, << >>).msg} THEN "unit"
    ELSE IF reason.msg \in {MissingRounding.msg, WrongRounding(0, 0).msg} THEN "rounding"
    ELSE IF reason.msg \in {NotDecimal.msg, WrongPlaces(0, 0).msg} THEN "literal"
    ELSE IF reason.msg \in {NumericMismatch(<< >>, << >>, 0).msg, CouldNotParse.msg}
         THEN "value"
    ELSE "shape"

\* the checks that have a reason in the list
MathChecksReported(reasons) == {MathCheckOf(reasons[i]) : i \in 1..Len(reasons)}

\* C23: once the shape check has passed, the reason list holds exactly one reason per
\* violated check among unit, rounding attribute, decimal literal with dp places and
\* value equality, so it never has more than 4 reasons.
C23_OneReasonPerCheck ==
    (vpc = "returned" /\ "shape" \notin MathChecksReported(verdict.reasons)) =>
        /\ Len(verdict.reasons) = Cardinality(MathChecksReported(verdict.reasons))
        /\ Len(verdict.reasons) <= 4

----------------------------------------------------------------------------
(***************************************************************************)
(* Properties of validate_code_block_normalize.                            *)
(***************************************************************************)
NotSpace(a) == ~IsSpace(a)

\* the atoms of a line that are not whitespace
Words(line) == SelectSeq(line, NotSpace)

\* the opening fences of python blocks in r
PythonFences(r) == {i \in 1..(Len(r) - 1) : r[i] = Fence /\ Lower(r[i + 1]) = "python"}

\* the response is, whitespace around it apart, one python block: an opening fence
\* with the tag, a newline, the content, a newline, the closing fence, and no other
\* fence
SingleBlock(r) ==
    LET t == Strip(r)
    IN  /\ Len(t) >= 5
        /\ t[1] = Fence /\ Lower(t[2]) = "python" /\ t[3] = "\n"
        /\ t[Len(t) - 1] = "\n" /\ t[Len(t)] = Fence
        /\ Count(t, Fence) = 2

\* the content of a response that is a SingleBlock
BlockCode(r) == LET t == Strip(r) IN Slice(t, 4, Len(t) - 2)

\* the line is the mandated header, read up to whitespace as the code's pattern does
IsHeader(line) == Words(line) = HeaderTight

\* the reasons of r that are import reasons
ImportReasonCount(reasons) ==
    Cardinality({i \in 1..Len(reasons) : reasons[i].msg = BannedImport(<< >>).msg})

\* the line is an import statement that imports a module whose top-level name is
\* banned: `import a, b.c as d` imports a and b, `from m.n import x` imports m
Offending(line) ==
    LET w == Words(line)
    IN  /\ Len(w) >= 2
        /\ \/ w[1] = "import" /\ \E i \in 2..Len(w) :
                                    w[i] \in banned_libs /\ w[i - 1] \in {"import", ","}
           \/ w[1] = "from" /\ w[2] \in banned_libs

OffendingCount(code) ==
    LET lines == SplitLines(code)
    IN  Cardinality({i \in 1..Len(lines) : Offending(lines[i])})

\* C12: a response that holds two python fenced blocks is rejected with exactly one
\* reason, one of the two exactly-one-block reasons; no header, signature,
\* main-guard or import reason is added.
C12_TwoBlocksOneReason ==
    (cpc = "returned" /\ Cardinality(PythonFences(code_response)) = 2) =>
        \/ code_verdict = Verdict(FALSE, <<NotOnePythonBlock>>)
        \/ code_verdict = Verdict(FALSE, <<NotOneFence>>)

C14_OnlyOneFencedBlock ==
    ( /\ cpc = "returned"
      /\ LET t == Strip(code_response)
         IN  ~(t # << >> /\ t[1] = Fence /\ t[Len(t)] = Fence /\ Count(t, Fence) = 2) )
    => \/ code_verdict = Verdict(FALSE, <<NotOnePythonBlock>>)
       \/ code_verdict = Verdict(FALSE, <<NotOneFence>>)

\* C15: a single-block response in which k import statements import a module whose
\* top-level name is banned is rejected when k > 0 and carries k import reasons.
C15_BannedImportsRejected ==
    (cpc = "returned" /\ SingleBlock(code_response)) =>
        LET k == OffendingCount(BlockCode(code_response))
        IN  /\ k > 0 => ~code_verdict.accepted
            /\ ImportReasonCount(code_verdict.reasons) = k

\* the first line with an atom that is not whitespace after the first opening python
\* fence of r, with the whitespace it starts and ends with
FirstBlockLine(r) ==
    LET i == CHOOSE f \in PythonFences(r) : \A g \in PythonFences(r) : f <= g
        word == SkipSpaces(r, i + 2)
        first == CHOOSE b \in (i + 2)..word :
                    /\ \A j \in b..(word - 1) : r[j] # "\n"
                    /\ b = i + 2 \/ r[b - 1] = "\n"
        newlines == {j \in word..Len(r) : r[j] = "\n"}
        last == IF newlines = {} THEN Len(r)
                ELSE (CHOOSE j \in newlines : \A k \in newlines : j <= k) - 1
    IN  Slice(r, first, last)

\* C25 as stated: whenever the response is accepted, the first non-blank line of the
\* block is the header text "# Python 3.12, stdlib only", character for character.
C25_HeaderLiterallyEqual ==
    (cpc = "returned" /\ code_verdict.accepted) =>
        FirstBlockLine(code_response) = HeaderLine

\* C25 as amended: whenever the response is accepted, the first non-blank line of
\* the block is the header text up to whitespace: #, Python, 3.12, and stdlib, only
\* in this order and this letter case, with any whitespace or none around them and
\* nothing else.
C25_HeaderUpToWhitespace ==
    (cpc = "returned" /\ code_verdict.accepted) =>
        /\ PythonFences(code_response) # {}
        /\ Words(FirstBlockLine(code_response)) = HeaderTight

\* a block whose header is written without any space is accepted
C25_Witness ==
    /\ cpc = "returned"
    /\ code_verdict.accepted
    /\ SingleBlock(code_response)
    /\ FirstBlockLine(code_response) = HeaderTight

----------------------------------------------------------------------------
(***************************************************************************)
(* Properties of validate_response and of the validators together.         *)
(***************************************************************************)
\* C11: whatever a validator returns, its accepted flag is TRUE exactly when its
\* reason list is empty, for validate_math_answer, validate_code_block_normalize
\* and validate_response alike.
C11_AcceptedIffNoReasons ==
    /\ vpc = "returned" => (verdict.accepted <=> verdict.reasons = << >>)
    /\ cpc = "returned" => (code_verdict.accepted <=> code_verdict.reasons = << >>)
    /\ jpc = "returned" => (outcome.accepted <=> outcome.reasons = << >>)

C11_Witness ==
    /\ jpc = "returned"
    /\ raw = DocText(GoodValues)
    /\ outcome.accepted
    /\ outcome.reasons = << >>

\* the call of validate_response has ended, by a return or by an exception
JsonEnded == jpc \in {"returned", "raised"}

\* the required keys that the document of raw lacks
AbsentKeys(raw_) ==
    {i \in 1..6 : RequiredKeys[i] \notin DOMAIN json_loads(raw_).val.fields}

\* C16: for a response that parses to a JSON object the call returns, and its
\* reasons hold the missing-key reason of every absent required key, once each.
C16_EveryMissingKeyReported ==
    (JsonEnded /\ json_loads(raw).ok /\ json_loads(raw).val.type = "dict") =>
        /\ jpc = "returned"
        /\ \A i \in AbsentKeys(raw) : Count(outcome.reasons, MissingKey(RequiredKeys[i])) = 1
        /\ Len(outcome.reasons) >= Cardinality(AbsentKeys(raw))

\* C17: a call of validate_response never ends by an exception: for every text it
\* returns a verdict.
C17_NeverRaises == jpc # "raised"

\* C18: for a text that does not parse as JSON the call returns rejected, with
\* the invalid-JSON reason alone and no parsed document; no text that parses gets
\* the invalid-JSON reason.
C18_ParseFailureOneReason ==
    JsonEnded =>
        /\ raw \in MalformedTexts => /\ jpc = "returned"
                                     /\ outcome = Outcome("none", FALSE, <<InvalidJson>>, None)
        /\ raw \notin MalformedTexts => Count(outcome.reasons, InvalidJson) = 0

C18_Witness ==
    /\ jpc = "returned"
    /\ raw = DocText(GoodValues) \o <<" ", "Done">>
    /\ outcome.reasons = <<InvalidJson>>
    /\ outcome.data = None

\* x is an object whose member key is a string among the allowed verdicts
HasAllowedVerdict(x) ==
    /\ x.type = "dict"
    /\ <<"verdict">> \in DOMAIN x.fields
    /\ x.fields[<<"verdict">>].type = "str"
    /\ x.fields[<<"verdict">>].text \in {<<"permit">>, <<"forbid">>, <<"conditional">>}

\* x is an object whose member key is a list with at least one item
HasNonEmptyList(x, key) ==
    /\ x.type = "dict"
    /\ key \in DOMAIN x.fields
    /\ x.fields[key].type = "list"
    /\ x.fields[key].items # << >>

\* C24: whenever validate_response accepts, the verdict of each of the four lenses
\* and of deployment_recommendation is one of permit, forbid, conditional, and
\* deployment_recommendation.conditions is a non-empty list.
C24_AcceptedVerdictsAllowed ==
    (jpc = "returned" /\ outcome.accepted) =>
        LET data == outcome.data
        IN  /\ data.type = "dict"
            /\ <<"per_lens">> \in DOMAIN data.fields
            /\ <<"deployment_recommendation">> \in DOMAIN data.fields
            /\ \A n \in 1..Len(Lenses) :
                  /\ data.fields[<<"per_lens">>].type = "dict"
                  /\ Lenses[n] \in DOMAIN data.fields[<<"per_lens">>].fields
                  /\ HasAllowedVerdict(data.fields[<<"per_lens">>].fields[Lenses[n]])
            /\ HasAllowedVerdict(data.fields[<<"deployment_recommendation">>])
            /\ HasNonEmptyList(data.fields[<<"deployment_recommendation">>], <<"conditions">>)

\* the place of a reason of validate_math_answer in the order of its checks
MathRank(reason) ==
    IF reason.msg \in {MissingUnits.msg, WrongUnits(<< >>, << >>).msg} THEN 1
    ELSE IF reason.msg \in {MissingRounding.msg, WrongRounding(0, 0).msg} THEN 2
    ELSE IF reason.msg = NotDecimal.msg THEN 3
    ELSE IF reason.msg = WrongPlaces(0, 0).msg THEN 4
    ELSE IF reason.msg \in {NumericMismatch(<< >>, << >>, 0).msg, CouldNotParse.msg} THEN 5
    ELSE 0

\* the place of a reason of validate_code_block_normalize in the order of its checks
CodeRank(reason) ==
    IF reason = BadHeader THEN 1
    ELSE IF reason = MissingSignature THEN 2
    ELSE IF reason = MissingMainGuard THEN 3
    ELSE IF reason.msg = BannedImport(<< >>).msg THEN 4
    ELSE 0

\* the index of key in the sequence keys
IndexIn(keys, key) == CHOOSE i \in 1..Len(keys) : keys[i] = key

\* the place of a reason of validate_response in the order of its checks
JsonRank(reason) ==
    IF reason.msg = MissingKey(<< >>).msg THEN IndexIn(RequiredKeys, reason.args[1])
    ELSE IF reason.msg = MissingLens(<< >>).msg THEN 10 * IndexIn(Lenses, reason.args[1])
    ELSE IF reason.msg = LensVerdictInvalid(<< >>).msg
         THEN 10 * IndexIn(Lenses, reason.args[1]) + 1
    ELSE IF reason.msg \in {LensRationaleMissing(<< >>).msg, LensRationaleTooLong(<< >>).msg}
         THEN 10 * IndexIn(Lenses, reason.args[1]) + 2
    ELSE IF reason = DepVerdictInvalid THEN 50
    ELSE IF reason = DepConditionsMissing THEN 51
    ELSE IF reason = OversightNotList THEN 60
    ELSE IF reason = CounterargumentMissing THEN 70
    ELSE IF reason = ClaimTooLong THEN 71
    ELSE IF reason = TestTooLong THEN 72
    ELSE IF reason = ResidualNotList THEN 80
    ELSE IF reason = ConfidenceNotNumber THEN 90
    ELSE 0

\* the names the import reasons of a reason list quote, in the order of the list
RECURSIVE QuotedImports(_)
QuotedImports(reasons) ==
    IF reasons = << >> THEN << >>
    ELSE (IF CodeRank(reasons[1]) = 4 THEN <<reasons[1].args[1]>> ELSE << >>)
         \o QuotedImports(Tail(reasons))

\* C26: every validator reports its reasons in the order of its checks, whatever the
\* input: validate_math_answer unit, rounding, decimal literal, decimal places,
\* value; validate_code_block_normalize header, signature, main guard, then the
\* banned imports in the order of the source; validate_response the missing keys in
\* the order of the contract, then per lens, deployment recommendation, oversight
\* plan, counterargument, residual risks, confidence.
C26_ReasonsInCheckOrder ==
    /\ vpc = "returned" =>
          \A i \in 1..(Len(verdict.reasons) - 1) :
              MathRank(verdict.reasons[i]) < MathRank(verdict.reasons[i + 1])
    /\ cpc = "returned" =>
          /\ \A i \in 1..(Len(code_verdict.reasons) - 1) :
                /\ CodeRank(code_verdict.reasons[i]) <= CodeRank(code_verdict.reasons[i + 1])
                /\ CodeRank(code_verdict.reasons[i]) < 4 =>
                      CodeRank(code_verdict.reasons[i]) < CodeRank(code_verdict.reasons[i + 1])
          /\ OccurInOrder(code_response, QuotedImports(code_verdict.reasons))
    /\ jpc = "returned" =>
          \A i \in 1..(Len(outcome.reasons) - 1) :
              JsonRank(outcome.reasons[i]) < JsonRank(outcome.reasons[i + 1])

\* a block without header, signature and main guard that imports numpy and then
\* torch gets the five reasons
C26_Witness ==
    /\ cpc = "returned"
    /\ Len(code_verdict.reasons) = 5
    /\ QuotedImports(code_verdict.reasons) = << <<"numpy">>, <<"torch">> >>

\* the value the validator reads as the rationale of a lens entry
RationaleOf(lens) == Get(lens, <<"rationale">>, Get(lens, <<"Rationale">>, None))

\* the free-text fields of a parsed document that are strings, each with the
\* word-limit reason that names it
FreeTextFields(data) ==
    LET per_lens == Get(data, <<"per_lens">>, None)
        ca == Get(data, <<"counterargument">>, None)
    IN  { [text |-> RationaleOf(per_lens.fields[Lenses[n]]).text,
           reason |-> LensRationaleTooLong(Lenses[n])] :
            n \in { m \in 1..Len(Lenses) :
                      /\ per_lens.type = "dict"
                      /\ Lenses[m] \in DOMAIN per_lens.fields
                      /\ per_lens.fields[Lenses[m]].type = "dict"
                      /\ RationaleOf(per_lens.fields[Lenses[m]]).type = "str" } }
        \cup { [text |-> ca.fields[key].text,
                reason |-> IF key = <<"claim">> THEN ClaimTooLong ELSE TestTooLong] :
                 key \in { k \in {<<"claim">>, <<"test">>} :
                             /\ ca.type = "dict"
                             /\ k \in DOMAIN ca.fields
                             /\ ca.fields[k].type = "str" } }

\* C27: free-text fields are bounded at 60 whitespace-delimited words: an accepted
\* response has at most 60 words in every lens rationale, in counterargument.claim
\* and in counterargument.test; a field of 60 words gets no reason and a field of 61
\* words gets one word-limit reason that names it.
C27_SixtyWordLimit ==
    (JsonEnded /\ json_loads(raw).ok /\ json_loads(raw).val.type = "dict") =>
        \A f \in FreeTextFields(json_loads(raw).val) :
            /\ outcome.accepted => count_words(f.text) <= MaxWords
            /\ count_words(f.text) <= MaxWords => Count(outcome.reasons, f.reason) = 0
            /\ count_words(f.text) > MaxWords => Count(outcome.reasons, f.reason) = 1

----------------------------------------------------------------------------
(***************************************************************************)
(* Properties of analyze_focus.                                            *)
(***************************************************************************)
\* C19: analyze_focus on the empty text returns, without an exception, a snapshot
\* with word count 0, on-topic hits 0, off-topic hits 0, focus score 0 and
\* signal-to-noise 0, the sentence total being 1.
C19_EmptyTextSnapshot ==
    (fpc # "called" /\ fpc # "idle" /\ focus_text = << >>) =>
        /\ fpc = "returned"
        /\ snapshot.raised = "none"
        /\ snapshot.length_words = 0
        /\ snapshot.target_hits = 0
        /\ snapshot.offtopic_hits = 0
        /\ snapshot.focus_score = 0
        /\ snapshot.snr = 0
        /\ snapshot.sentences = 1

C19_Witness ==
    /\ fpc = "returned"
    /\ focus_text = << >>
    /\ snapshot.sentences = 1

\* the atoms at which a sentence of t starts, t without whitespace at its ends: the
\* first atom, and the atom after each run of whitespace that follows ".", "!" or "?"
SentenceStarts(t) ==
    { i \in 1..Len(t) :
        \/ i = 1
        \/ /\ i > 2 /\ ~IsSpace(t[i]) /\ IsSpace(t[i - 1])
           /\ \E j \in 2..(i - 1) :
                 /\ t[j - 1] \in {".", "!", "?"}
                 /\ \A k \in j..(i - 1) : IsSpace(t[k]) }

\* the atoms of t at which key occurs, letter case apart
OccurrencesOf(t, key) ==
    { i \in 1..(Len(t) - Len(key) + 1) :
        \A k \in 1..Len(key) : LowerAtom(t[i + k - 1]) = key[k] }

\* the keyword occurrences of t: one for each keyword of keys and each place
HitsOf(t, keys) ==
    Cardinality({ <<n, i>> \in (1..Len(keys)) \X (1..Len(t)) : i \in OccurrencesOf(t, keys[n]) })

\* the sentences of t that hold an on-topic keyword, each named by its first atom
OnTopicSentences(t) ==
    { a \in SentenceStarts(t) :
        \E n \in 1..Len(SQL_KEYS \o AUTH_KEYS) :
            \E i \in OccurrencesOf(t, (SQL_KEYS \o AUTH_KEYS)[n]) :
                /\ a <= i
                /\ \A b \in SentenceStarts(t) :
                      b > a => i + Len((SQL_KEYS \o AUTH_KEYS)[n]) - 1 < b }

\* the number of sentences reported: the sentences of the text, one at least
ReportedSentences(t) ==
    IF Cardinality(SentenceStarts(t)) > 1 THEN Cardinality(SentenceStarts(t)) ELSE 1

\* C28 as stated: for every text, focus_score is the on-topic hits minus the
\* off-topic hits and snr is the number of sentences with an on-topic keyword divided
\* by max(number of sentences, 1); the sentence count is at least 1, the on-topic
\* sentences are no more than it, and 0 <= snr <= 1.  snr is held in thousandths.
C28_SnrIsTheQuotient ==
    fpc # "called" /\ fpc # "idle" =>
        LET t == Strip(focus_text)
        IN  /\ fpc = "returned"
            /\ snapshot.focus_score = HitsOf(t, SQL_KEYS \o AUTH_KEYS) - HitsOf(t, OFF_TOPIC)
            /\ snapshot.sentences = ReportedSentences(t)
            /\ snapshot.sentences >= 1
            /\ Cardinality(OnTopicSentences(t)) <= snapshot.sentences
            /\ snapshot.snr * snapshot.sentences = 1000 * Cardinality(OnTopicSentences(t))
            /\ 0 <= snapshot.snr /\ snapshot.snr <= 1000

\* C28 as amended: as stated, but snr is that quotient rounded to three decimal
\* places, so it is within half a thousandth of the quotient.
C28_SnrIsTheRoundedQuotient ==
    fpc # "called" /\ fpc # "idle" =>
        LET t == Strip(focus_text)
            gap == snapshot.snr * snapshot.sentences - 1000 * Cardinality(OnTopicSentences(t))
        IN  /\ fpc = "returned"
            /\ snapshot.focus_score = HitsOf(t, SQL_KEYS \o AUTH_KEYS) - HitsOf(t, OFF_TOPIC)
            /\ snapshot.focus_score = snapshot.target_hits - snapshot.offtopic_hits
            /\ snapshot.sentences = ReportedSentences(t)
            /\ snapshot.sentences >= 1
            /\ Cardinality(OnTopicSentences(t)) <= snapshot.sentences
            /\ 2 * gap <= snapshot.sentences /\ 0 - snapshot.sentences <= 2 * gap
            /\ 0 <= snapshot.snr /\ snapshot.snr <= 1000

\* two of three sentences are on topic and snr is 0.667
C28_Witness ==
    /\ fpc = "returned"
    /\ snapshot.sentences = 3
    /\ Cardinality(OnTopicSentences(Strip(focus_text))) = 2
    /\ snapshot.snr = 667

----------------------------------------------------------------------------
====
